---- MODULE Spec2Model ----
(***************************************************************************)
(* Model of the Telegram place-card bot: the allow-list lookup, the field  *)
(* validators, the per-user edit session kept in context.user_data, the    *)
(* Google-sheet record store and the handlers registered in start_bot.     *)
(*                                                                         *)
(* Python str values are sequences of Unicode code points, so that the     *)
(* regular expressions of the validators are evaluated character by        *)
(* character.  Dictionary keys, callback data of the field buttons and the *)
(* fixed texts of the bot's own messages are TLA+ strings.                 *)
(***************************************************************************)
EXTENDS Integers, Sequences, FiniteSets, TLC

VARIABLES
    user_data,        \* context.user_data of every user: a dict per user
    sheet,            \* the data rows of the Google sheet (row 1 = headers)
    sent,             \* messages sent to the chat by the latest handler
    last,             \* the update the latest handler was dispatched for
    calls,            \* collaborator calls made by the latest handler
    raised,           \* the latest handler ended with an uncaught exception
    notified,         \* deliveries attempted by the latest handler
    conversations,    \* state of the photo conversation of every user: 0 or 1
    updates,            \* number of updates handled so far
    arg,              \* argument of a directly called pure function
    ret,              \* its return value
    pc                \* "session", or "call"/"done" for a direct call

vars == <<user_data, sheet, sent, last, calls, raised,
          notified, conversations, updates, arg, ret, pc>>

session_vars == <<user_data, sheet, sent, last, calls, raised,
                  notified, conversations, updates>>

-----------------------------------------------------------------------------
(* Bounds of the model *)

MaxUserId == 60
MaxPad == 1
MaxUpdates == 4
MaxDigits == 12
MaxPhotos == 2

-----------------------------------------------------------------------------
(* Python values *)

\* None in a slot that otherwise holds a str; no str contains code point -1
None == << -1 >>

\* None in a slot that otherwise holds an object
NoObject == [none |-> TRUE]

EmptyDict == << >>

HasKey(d, k) == k \in DOMAIN d

\* d[k] = v
SetItem(d, k, v) == [x \in DOMAIN d \cup {k} |-> IF x = k THEN v ELSE d[x]]

\* d.setdefault(k, v): an existing key keeps its value
SetDefault(d, k, v) == IF HasKey(d, k) THEN d ELSE SetItem(d, k, v)

\* d.pop(k) for a key that is present
Pop(d, k) == [x \in DOMAIN d \ {k} |-> d[x]]

\* str(n) for n >= 0
RECURSIVE str(_)
str(n) == IF n < 10 THEN << 48 + n >> ELSE str(n \div 10) \o << 48 + (n % 10) >>

\* the comparison without .lower()
equals_as_written(s, phrase) == s = phrase

\* s.lower() == phrase, for a phrase of ASCII characters.  str.lower maps one
\* code point to an ASCII character in three cases only: an ASCII character
\* other than a capital to itself, an ASCII capital to its small letter, and
\* U+212A (the Kelvin sign) to "k".  Every other code point lowers to a text
\* that holds a character outside ASCII (U+0130 to "i" and U+0307), so a text
\* that holds one has a lowered form different from the phrase.
lower_equals(s, phrase) ==
    /\ Len(s) = Len(phrase)
    /\ \A i \in 1..Len(s) :
           IF s[i] >= 65 /\ s[i] <= 90 THEN s[i] + 32 = phrase[i]
           ELSE IF s[i] = 8490 THEN phrase[i] = 107
           ELSE s[i] < 128 /\ s[i] = phrase[i]

-----------------------------------------------------------------------------
(* config.py *)

id_list == << 3, 5, 8 >>

id_notification_list == << 101, 102 >>

-----------------------------------------------------------------------------
(* models/telegram_user.py *)

TelegramUser(user_id, role) == [user_id |-> user_id, role |-> role]

RECURSIVE auth_loop(_, _)
auth_loop(i, user_id) ==
    IF i > Len(id_list) THEN NoObject
    ELSE IF id_list[i] = user_id THEN TelegramUser(user_id, "Data Manager")
    ELSE auth_loop(i + 1, user_id)

\* a lookup that stops after the first entry of the list
auth_first_entry(user_id) ==
    IF Len(id_list) >= 1 /\ id_list[1] = user_id
    THEN TelegramUser(user_id, "Data Manager") ELSE NoObject

\* a lookup whose loop stops before the last entry of the list
auth_skip_last(user_id) ==
    IF \E i \in 1..(Len(id_list) - 1) : id_list[i] = user_id
    THEN TelegramUser(user_id, "Data Manager") ELSE NoObject

auth(user_id) == auth_loop(1, user_id)

-----------------------------------------------------------------------------
(* Regular expressions of the validators *)

IsLatinLetter(c) == (c >= 97 /\ c <= 122) \/ (c >= 65 /\ c <= 90)

IsDigit(c) == c >= 48 /\ c <= 57

\* the ranges U+0430-U+044F and U+0410-U+042F written in the pattern
IsCyrillicRange(c) == (c >= 1072 /\ c <= 1103) \/ (c >= 1040 /\ c <= 1071)

\* \s of a str pattern
Whitespace == {9, 10, 11, 12, 13, 28, 29, 30, 31, 32, 133, 160, 5760}
              \cup (8192..8202) \cup {8232, 8233, 8239, 8287, 12288}

IsNameChar(c) == IsLatinLetter(c) \/ IsCyrillicRange(c) \/ c \in Whitespace \/ c = 39

IsAlnum(c) == IsLatinLetter(c) \/ IsDigit(c)

\* "$" without re.MULTILINE: at the end, or before a newline that ends the string
AtDollar(s, n) == n = Len(s) \/ (n = Len(s) - 1 /\ s[Len(s)] = 10)

MapsPrefix == << 104, 116, 116, 112, 115, 58, 47, 47, 109, 97, 112, 115, 46,
                 97, 112, 112, 46, 103, 111, 111, 46, 103, 108, 47 >>

-----------------------------------------------------------------------------
(* bot/telegram_bot.py: validators *)

validate_name(name) ==
    \E n \in 1..Len(name) :
        /\ \A i \in 1..n : IsNameChar(name[i])
        /\ AtDollar(name, n)

ValidTypes == { << 80, 108, 97, 99, 101, 115, 32, 116, 111, 32, 101, 97, 116 >>,
                << 65, 100, 118, 101, 110, 116, 117, 114, 101, 115 >>,
                << 83, 101, 114, 118, 105, 99, 101, 115 >> }

validate_type(type) == type \in ValidTypes

validate_google_maps(url) ==
    LET p == Len(MapsPrefix) IN
    /\ Len(url) > p
    /\ SubSeq(url, 1, p) = MapsPrefix
    /\ \E n \in (p + 1)..Len(url) :
           /\ \A i \in (p + 1)..n : IsAlnum(url[i])
           /\ AtDollar(url, n)

-----------------------------------------------------------------------------
(* The initial state of the bot and of its collaborators *)

\* the devices that talk to the bot: 5 is in id_list, 9 is not
Users == {5, 9}

NoUpdate == [h |-> "none", u |-> 0]

NoCalls == [auth |-> 0, read |-> 0, write |-> 0, upload |-> 0]

\* the sheet before the bot is started: the header row and one place
Headers == << "ID", "name", "type", "photos", "google_map", "phone_numbers",
              "Whatsapp", "hours_of_operation", "data_manager" >>

HeaderSet == {Headers[i] : i \in DOMAIN Headers}

T_Ab == << 65, 98 >>
T_Cd == << 67, 100 >>
T_Services == << 83, 101, 114, 118, 105, 99, 101, 115 >>

IdPrefix == << 226, 8222, 8211 >>

FirstRow ==
    [h \in HeaderSet |->
        CASE h = "ID" -> IdPrefix \o str(310)
          [] h = "name" -> T_Ab
          [] h = "type" -> T_Services
          [] h = "data_manager" -> << 77 >>
          [] OTHER -> << >>]

IdleSession ==
    /\ user_data = [u \in Users |-> EmptyDict]
    /\ sheet = << FirstRow >>
    /\ sent = << >>
    /\ last = NoUpdate
    /\ calls = NoCalls
    /\ raised = FALSE
    /\ notified = << >>
    /\ conversations = [u \in Users |-> 0]
    /\ updates = 0

-----------------------------------------------------------------------------
(* Direct calls of the pure functions *)

UserIds == 0..MaxUserId

InitAuth ==
    /\ IdleSession
    /\ pc = "call"
    /\ arg \in UserIds
    /\ ret = NoObject

CallAuth ==
    /\ pc = "call"
    /\ ret' = auth(arg)
    /\ pc' = "done"
    /\ UNCHANGED << session_vars, arg >>

SpecAuth == InitAuth /\ [][CallAuth]_vars

\* characters a name is tried with: the Cyrillic letters U+0400-U+045F, Latin
\* letters, digits, punctuation next to the letter ranges, white space
NameAlphabet ==
    (1024..1119) \cup {65, 90, 97, 122} \cup {48, 57}
    \cup {33, 45, 46, 64, 91, 95, 96, 123} \cup {9, 10, 32, 160} \cup {39}

PadAlphabet == {97, 1103, 32, 39, 10}

RECURSIVE StringsUpTo(_, _)
StringsUpTo(alphabet, n) ==
    IF n = 0 THEN { << >> }
    ELSE LET shorter == StringsUpTo(alphabet, n - 1) IN
         shorter \cup {s \o << c >> : s \in shorter, c \in alphabet}

NameInputs ==
    LET pads == StringsUpTo(PadAlphabet, MaxPad) IN
    {pre \o mid \o suf : pre \in pads, suf \in pads,
                         mid \in { << >> } \cup {<< c >> : c \in NameAlphabet}}

InitName ==
    /\ IdleSession
    /\ pc = "call"
    /\ arg \in NameInputs
    /\ ret = FALSE

CallValidateName ==
    /\ pc = "call"
    /\ ret' = validate_name(arg)
    /\ pc' = "done"
    /\ UNCHANGED << session_vars, arg >>

SpecName == InitName /\ [][CallValidateName]_vars

-----------------------------------------------------------------------------
(* models/google_services.py: the record store *)

CardOrder == << "name", "type", "photos", "google_map", "phone_numbers",
                "Whatsapp", "hours_of_operation", "ID" >>

CardFields == {CardOrder[i] : i \in DOMAIN CardOrder}

read_from_google_sheets == sheet

\* the new row without `new_row_df["ID"] = ...`
new_row_without_id(df, name) ==
    [h \in HeaderSet |-> IF h = "name" THEN name ELSE None]

\* the new row of search_name_in_df: every column None but name and ID
new_row(df, name) ==
    [h \in HeaderSet |->
        IF h = "name" THEN name
        ELSE IF h = "ID" THEN IdPrefix \o str(Len(df) + 310)
        ELSE None]

search_name_in_df(df, name) ==
    LET matches == SelectSeq(df, LAMBDA row : row["name"] = name)
        created_new == matches = << >>
        row == IF created_new THEN new_row(df, name) ELSE matches[1]
    IN  [card |-> [f \in CardFields |-> row[f]], created_new |-> created_new]

\* the False that write_on_google_sheets returns when a call of the sheet fails
PyFalse == [py_false |-> TRUE]

\* Worksheet.row_values: the cells of a row without the trailing empty ones
row_values(row) ==
    LET full == [i \in 1..Len(Headers) |-> row[Headers[i]]]
        filled == {i \in 1..Len(Headers) : full[i] # << >>}
        n == IF filled = {} THEN 0 ELSE CHOOSE i \in filled : \A j \in filled : j <= i
    IN  SubSeq(full, 1, n)

\* the search of write_on_google_sheets that finds no row
existing_row_index_none(data, id) == 0

\* the index in the data rows of the first row with the ID, 0 when there is none
existing_row_index(data, id) ==
    LET hits == {i \in 1..Len(data) : data[i]["ID"] = id}
    IN  IF hits = {} THEN 0 ELSE CHOOSE i \in hits : \A j \in hits : i <= j

\* Worksheet.update of one cell: a null value leaves the cell as it is
cell_after(old, value) == IF value = None THEN old ELSE value

\* write_on_google_sheets; ok is whether the calls of the sheet succeed.
\* The result is the returned value and the rows of the sheet afterwards.
write_on_google_sheets(organization, ok) ==
    IF ~ok THEN [ret |-> PyFalse, rows |-> sheet]
    ELSE
    LET idx == existing_row_index(sheet, organization["ID"]) IN
    IF idx # 0
    THEN LET current_values == row_values(sheet[idx])
             updated_values ==
                 [i \in 1..Len(Headers) |->
                     IF Headers[i] \in DOMAIN organization
                     THEN organization[Headers[i]]
                     ELSE IF i <= Len(current_values) THEN current_values[i] ELSE << >>]
             row == [h \in HeaderSet |->
                        LET i == CHOOSE j \in 1..Len(Headers) : Headers[j] = h
                        IN  cell_after(sheet[idx][h], updated_values[i])]
         IN  [ret |-> [h \in {Headers[i] : i \in 1..Len(current_values)} |-> sheet[idx][h]],
              rows |-> [sheet EXCEPT ![idx] = row]]
    ELSE LET row_vals == [h \in HeaderSet |->
                             IF h \in DOMAIN organization THEN organization[h] ELSE << >>]
         IN  [ret |-> row_vals,
              rows |-> Append(sheet, [h \in HeaderSet |-> cell_after(<< >>, row_vals[h])])]

-----------------------------------------------------------------------------
(* models/notification.py *)

\* the characters of escape_chars
EscapeChars == {92, 95, 42, 91, 93, 40, 41, 126, 96, 62, 35, 43, 45, 61, 124,
                123, 125, 46, 33}

\* the join of the characters of text, each after a backslash when it is
\* in escape_chars; the text is taken by halves
RECURSIVE escape_markdown_v2(_)
escape_markdown_v2(text) ==
    IF Len(text) = 0 THEN << >>
    ELSE IF Len(text) = 1
    THEN (IF text[1] \in EscapeChars THEN << 92, text[1] >> ELSE << text[1] >>)
    ELSE LET half == Len(text) \div 2
         IN  escape_markdown_v2(SubSeq(text, 1, half))
             \o escape_markdown_v2(SubSeq(text, half + 1, Len(text)))

\* payload_changes: the keys of payload, in its order, that old_payload has
\* with another value
RECURSIVE payload_changes(_, _, _)
payload_changes(payload, old_payload, i) ==
    IF i > Len(CardOrder) THEN << >>
    ELSE LET key == CardOrder[i] IN
         (IF key \in DOMAIN old_payload /\ payload[key] # old_payload[key]
          THEN << [key |-> key, old |-> old_payload[key], new |-> payload[key]] >>
          ELSE << >>)
         \o payload_changes(payload, old_payload, i + 1)

\* the characters of a key of the payload
KeyText(key) ==
    CASE key = "name" -> << 110, 97, 109, 101 >>
      [] key = "type" -> << 116, 121, 112, 101 >>
      [] key = "photos" -> << 112, 104, 111, 116, 111, 115 >>
      [] key = "google_map" -> << 103, 111, 111, 103, 108, 101, 95, 109, 97, 112 >>
      [] key = "phone_numbers" ->
             << 112, 104, 111, 110, 101, 95, 110, 117, 109, 98, 101, 114, 115 >>
      [] key = "Whatsapp" -> << 87, 104, 97, 116, 115, 97, 112, 112 >>
      [] key = "hours_of_operation" ->
             << 104, 111, 117, 114, 115, 95, 111, 102, 95, 111, 112, 101, 114, 97,
                116, 105, 111, 110 >>
      [] key = "ID" -> << 73, 68 >>

\* a value in an f-string: str(None) is "None"
format_value(value) == IF value = None THEN << 78, 111, 110, 101 >> ELSE value

\* f"{number}. {key}: {value['old']} -> {value['new']}"
change_line(number, change) ==
    str(number) \o << 46, 32 >> \o KeyText(change.key) \o << 58, 32 >>
    \o format_value(change.old) \o << 32, 45, 62, 32 >> \o format_value(change.new)

\* "\n".join(lines)
RECURSIVE join_lines(_)
join_lines(lines) ==
    IF lines = << >> THEN << >>
    ELSE IF Len(lines) = 1 THEN lines[1]
    ELSE lines[1] \o << 10 >> \o join_lines(Tail(lines))

\* payload_changes_str with the lines numbered idx instead of idx + 1
payload_changes_str_from_zero(changes) ==
    join_lines([i \in 1..Len(changes) |-> change_line(i - 1, changes[i])])

\* payload_changes_str after the loop over the keys: one line for each entry
\* of payload_changes, numbered idx + 1 for the idx of enumerate
payload_changes_str(changes) ==
    join_lines([i \in 1..Len(changes) |-> change_line((i - 1) + 1, changes[i])])

\* the deliveries of the loop over id_notification_list from recipient i on;
\* outcomes[i] is "ok" (status 200), "fail" (another status) or "error" (the
\* post raises)
RECURSIVE deliveries_posting_again(_, _, _)
\* the loop of send_notification with a second post after a status that is not 200
deliveries_posting_again(message, outcomes, i) ==
    IF i > Len(id_notification_list) THEN [posts |-> << >>, raised |-> FALSE]
    ELSE LET post == [chat_id |-> id_notification_list[i], message |-> message,
                      outcome |-> outcomes[i]]
         IN  IF outcomes[i] = "error"
             THEN [posts |-> << post >>, raised |-> TRUE]
             ELSE LET rest == deliveries_posting_again(message, outcomes, i + 1)
                      tries == IF outcomes[i] = "fail" THEN << post, post >>
                               ELSE << post >>
                  IN  [posts |-> tries \o rest.posts, raised |-> rest.raised]

RECURSIVE deliveries(_, _, _)
deliveries(message, outcomes, i) ==
    IF i > Len(id_notification_list) THEN [posts |-> << >>, raised |-> FALSE]
    ELSE LET post == [chat_id |-> id_notification_list[i], message |-> message,
                      outcome |-> outcomes[i]]
         IN  IF outcomes[i] = "error"
             THEN [posts |-> << post >>, raised |-> TRUE]
             ELSE LET rest == deliveries(message, outcomes, i + 1)
                  IN  [posts |-> << post >> \o rest.posts, raised |-> rest.raised]

\* send_notification: the posts made and whether it raised
send_notification(payload, old_payload, outcomes) ==
    IF old_payload = PyFalse THEN [posts |-> << >>, raised |-> TRUE]
    ELSE IF ~("name" \in DOMAIN old_payload) \/ old_payload["name"] = None
    THEN [posts |-> << >>, raised |-> TRUE]
    ELSE deliveries([name |-> escape_markdown_v2(old_payload["name"]),
                     changes |-> escape_markdown_v2(payload_changes_str(
                                     payload_changes(payload, old_payload, 1)))],
                    outcomes, 1)

Outcomes == [1..Len(id_notification_list) -> {"ok", "fail", "error"}]

\* what the collaborators of a save do: the write fails, or it succeeds and
\* each post has an outcome
SaveResults ==
    {[write_ok |-> FALSE, outcomes |-> [i \in 1..Len(id_notification_list) |-> "ok"]]}
    \cup [write_ok : {TRUE}, outcomes : Outcomes]

-----------------------------------------------------------------------------
(* bot/telegram_bot.py: messages *)

Msg(text, markup) == [text |-> text, markup |-> markup]

\* show_place_card for a user_data that has a current card
CardMsg(current_row) == [text |-> "place card", markup |-> "none", card |-> current_row]

NotAuthorizedMsg == Msg("Your ID is not authorized", "none")

\* the keyboard of start: "Show place card", "Show unfilled places"
MenuMsg == Msg("Hi! Choose an action:", "menu")

\* the keyboard of show_unfilled_places: "Share your location" (a button that
\* requests the location) and "Exit"
LocationPromptMsg ==
    Msg("Please share your location to find unfilled places near you:", "location")

NamePromptMsg ==
    Msg("Please enter the name of the company you want to know about.", "force_reply")

InvalidNameReplyMsg ==
    Msg("Invalid name. Please enter a valid name with only letters, spaces, and apostrophes.",
        "force_reply")

InvalidNameMsg ==
    Msg("Invalid name. Please enter a valid name with only letters, spaces, and apostrophes.",
        "none")

\* the keyboard with the buttons "Places to eat", "Adventures", "Services"
InvalidTypeMsg == Msg("Invalid type. Please choose one of the following types:", "types")

ChooseTypeMsg == Msg("Choose a type:", "types")

InvalidPhotosMsg == Msg("Invalid photos. Please send valid photo files.", "none")

InvalidMapMsg ==
    Msg("Invalid input for google_map. Provide a link to Google Maps using the following format https://maps.app.goo.gl/{LocationID}.",
        "none")

EditBarMsg == Msg("Choose a field to edit:", "editbar")

EditKeyboardMsg == Msg("Save when you are finished, or exit to cancel changes", "exit_save")

-----------------------------------------------------------------------------
(* bot/telegram_bot.py: dispatch of start_bot *)

T_Exit == << 69, 120, 105, 116 >>
T_start == << 115, 116, 97, 114, 116 >>
T_SlashStart == << 47 >> \o T_start
\* "/START"
T_SlashStartCapitals == << 47, 83, 84, 65, 82, 84 >>
\* "/": a text that starts with "/" and holds no command
T_Slash == << 47 >>
T_Save == << 83, 97, 118, 101 >>
T_ShowInformation == << 115, 104, 111, 119, 32, 105, 110, 102, 111, 114, 109, 97, 116, 105, 111, 110 >>
\* "Show Information"
T_ShowCapitals == << 83, 104, 111, 119, 32, 73, 110, 102, 111, 114, 109, 97, 116, 105, 111, 110 >>
T_Link == << 104, 116, 116, 112, 115, 58, 47, 47, 109, 97, 112, 115, 46, 97, 112, 112, 46, 103, 111, 111, 46, 103, 108, 47, 97, 49 >>
T_LinkNewline == T_Link \o << 10 >>

\* the texts users send as a reply to a message of the chat
ReplyTexts == {T_Ab, T_Cd, T_LinkNewline, T_SlashStart}

\* the texts users send otherwise
PlainTexts == {T_Ab, T_ShowInformation, T_Link, T_LinkNewline, T_Exit, T_Save}

\* the messages that hold the command start
StartMessages == [text : {T_SlashStart, T_SlashStartCapitals}, reply : BOOLEAN]

Messages == [text : ReplyTexts, reply : {TRUE}] \cup [text : PlainTexts, reply : {FALSE}]

\* filters.Regex("^...$"): re.search of a pattern anchored at both ends
RegexWhole(text, literal) == text = literal \/ text = literal \o << 10 >>

\* a character of the name of a bot command: a Latin letter, a digit or "_"
IsCommandChar(c) == IsLatinLetter(c) \/ IsDigit(c) \/ c = 95

\* the last position of the run of command characters that starts at i,
\* i - 1 when there is none
RECURSIVE RunEnd(_, _)
RunEnd(text, i) ==
    IF i <= Len(text) /\ IsCommandChar(text[i]) THEN RunEnd(text, i + 1) ELSE i - 1

\* filters.COMMAND: the message has a bot_command entity at offset 0, which
\* Telegram puts on "/" followed by a name of command characters
IsCommand(text) == Len(text) >= 2 /\ text[1] = 47 /\ IsCommandChar(text[2])

\* the username of the bot the token belongs to ("gs_bot"): it is what
\* get_bot().username gives, and is not in the repository
bot_username == << 103, 115, 95, 98, 111, 116 >>

\* CommandHandler("start", ...).check_update: the entity at offset 0 is the
\* command start in any mix of cases, alone or followed by "@" and the
\* username of the bot; what follows the entity is arguments
IsStartCommand(text) ==
    /\ IsCommand(text)
    /\ LET k == RunEnd(text, 2)
           m == IF k < Len(text) /\ text[k + 1] = 64 THEN RunEnd(text, k + 2) ELSE k
       IN  /\ lower_equals(SubSeq(text, 2, k), T_start)
           /\ m > k + 1 => lower_equals(SubSeq(text, k + 2, m), bot_username)

\* the first handler of group 0 whose filter accepts a text message
Route(text, reply) ==
    IF IsStartCommand(text) THEN "start"
    ELSE IF RegexWhole(text, T_Exit) THEN "handle_exit"
    ELSE IF RegexWhole(text, T_Save) THEN "handle_save"
    ELSE IF reply THEN "handle_company_name"
    ELSE IF ~IsCommand(text) THEN "handle_new_value"
    ELSE "none"

Update(h, u) == [h |-> h, u |-> u]

-----------------------------------------------------------------------------
(* bot/telegram_bot.py: handlers *)

\* start without the branch of the unknown user
start_unchecked(user_id) == << MenuMsg >>

\* the messages of TelegramBot.start
start(user_id) ==
    IF auth(user_id) # NoObject THEN << MenuMsg >> ELSE << NotAuthorizedMsg >>

Start(u) ==
    /\ last' = Update("start", u)
    /\ sent' = start(u)
    /\ calls' = [NoCalls EXCEPT !.auth = 1]
    /\ raised' = FALSE
    /\ notified' = << >>
    /\ updates' = updates + 1
    /\ UNCHANGED << user_data, sheet, conversations, arg, ret, pc >>

\* a message that start_bot hands to the handler of the command start
StartCommand(u, text, reply) ==
    /\ Route(text, reply) = "start"
    /\ Start(u)

\* show_unfilled_places, for the callback data show_unfilled_places
ShowUnfilledPlaces(u) ==
    /\ last' = Update("show_unfilled_places", u)
    /\ sent' = << LocationPromptMsg >>
    /\ calls' = NoCalls
    /\ raised' = FALSE
    /\ notified' = << >>
    /\ updates' = updates + 1
    /\ UNCHANGED << user_data, sheet, conversations, arg, ret, pc >>

\* the location users share: latitude and longitude as str() writes them
Locations == {[latitude |-> "9.93", longitude |-> "-84.08"]}

\* handle_location, for a message that holds a location
HandleLocation(u, user_location) ==
    /\ last' = Update("handle_location", u)
    /\ sent' = << Msg("Thank you! We received your location: latitude="
                          \o user_location.latitude \o ", longitude="
                          \o user_location.longitude, "none") >>
    /\ calls' = NoCalls
    /\ raised' = FALSE
    /\ notified' = << >>
    /\ updates' = updates + 1
    /\ UNCHANGED << user_data, sheet, conversations, arg, ret, pc >>

\* button_handler for the callback data button_add_pressed, and add_company
ButtonHandler(u) ==
    /\ last' = Update("button_handler", u)
    /\ sent' = << NamePromptMsg >>
    /\ calls' = NoCalls
    /\ raised' = FALSE
    /\ notified' = << >>
    /\ updates' = updates + 1
    /\ UNCHANGED << user_data, sheet, conversations, arg, ret, pc >>

\* handle_company_name, lines 249-257: the name is refused
company_name_refused(u) ==
    /\ sent' = << InvalidNameReplyMsg, NamePromptMsg >>
    /\ calls' = NoCalls
    /\ raised' = FALSE
    /\ UNCHANGED user_data

\* the lookup putting the record it read into the session of every user
company_name_lookup_for_all(u, company_name, read_ok) ==
    IF ~read_ok
    THEN /\ sent' = << >>
         /\ calls' = [NoCalls EXCEPT !.read = 1]
         /\ raised' = TRUE
         /\ UNCHANGED user_data
    ELSE LET found == search_name_in_df(read_from_google_sheets, company_name)
             data == SetDefault(user_data[u], "current_card", found.card)
         IN  /\ user_data' = [v \in Users |->
                                 SetDefault(user_data[v], "current_card", found.card)]
             /\ sent' = << Msg(IF found.created_new
                                THEN "Company not found. A new one was created."
                                ELSE "Company found.", "none"),
                           CardMsg(data["current_card"]),
                           EditBarMsg, EditKeyboardMsg >>
             /\ calls' = [NoCalls EXCEPT !.read = 1]
             /\ raised' = FALSE

\* handle_company_name, lines 259-274: the lookup; read_ok is whether the
\* sheet could be read. self.current_card_id is written at line 261 and read
\* at line 262 with no await in between, and nowhere else: it is the local
\* found.card here
company_name_lookup(u, company_name, read_ok) ==
    IF ~read_ok
    THEN /\ sent' = << >>
         /\ calls' = [NoCalls EXCEPT !.read = 1]
         /\ raised' = TRUE
         /\ UNCHANGED user_data
    ELSE LET found == search_name_in_df(read_from_google_sheets, company_name)
             data == SetDefault(user_data[u], "current_card", found.card)
         IN  /\ user_data' = [user_data EXCEPT ![u] = data]
             /\ sent' = << Msg(IF found.created_new
                                THEN "Company not found. A new one was created."
                                ELSE "Company found.", "none"),
                           CardMsg(data["current_card"]),
                           EditBarMsg, EditKeyboardMsg >>
             /\ calls' = [NoCalls EXCEPT !.read = 1]
             /\ raised' = FALSE

\* the handler without the check of the name
handle_company_name_unchecked(u, company_name, read_ok) ==
    company_name_lookup(u, company_name, read_ok)

handle_company_name(u, company_name, read_ok) ==
    IF ~validate_name(company_name)
    THEN company_name_refused(u)
    ELSE company_name_lookup(u, company_name, read_ok)

HandleCompanyName(u, text, read_ok) ==
    /\ Route(text, TRUE) = "handle_company_name"
    /\ last' = Update("handle_company_name", u)
    /\ handle_company_name(u, text, read_ok)
    /\ notified' = << >>
    /\ updates' = updates + 1
    /\ UNCHANGED << sheet, conversations, arg, ret, pc >>

\* the keyboard data of the three types and the str each stands for
TypeText ==
    [t \in {"Places to eat", "Adventures", "Services"} |->
        CASE t = "Places to eat" -> << 80, 108, 97, 99, 101, 115, 32, 116, 111, 32, 101, 97, 116 >>
          [] t = "Adventures" -> << 65, 100, 118, 101, 110, 116, 117, 114, 101, 115 >>
          [] t = "Services" -> T_Services]

TypeButtons == DOMAIN TypeText

FieldButtons == {"name", "type", "google_map", "phone_numbers", "Whatsapp",
                 "hours_of_operation"}

\* the code points for which str.isdigit is true (Unicode 14, the Numeric_Type
\* values Decimal and Digit), as ranges << first, last >>
DigitRanges ==
    { << 48, 57 >>, << 178, 179 >>, << 185, 185 >>, << 1632, 1641 >>,
      << 1776, 1785 >>, << 1984, 1993 >>, << 2406, 2415 >>, << 2534, 2543 >>,
      << 2662, 2671 >>, << 2790, 2799 >>, << 2918, 2927 >>, << 3046, 3055 >>,
      << 3174, 3183 >>, << 3302, 3311 >>, << 3430, 3439 >>, << 3558, 3567 >>,
      << 3664, 3673 >>, << 3792, 3801 >>, << 3872, 3881 >>, << 4160, 4169 >>,
      << 4240, 4249 >>, << 4969, 4977 >>, << 6112, 6121 >>, << 6160, 6169 >>,
      << 6470, 6479 >>, << 6608, 6618 >>, << 6784, 6793 >>, << 6800, 6809 >>,
      << 6992, 7001 >>, << 7088, 7097 >>, << 7232, 7241 >>, << 7248, 7257 >>,
      << 8304, 8304 >>, << 8308, 8313 >>, << 8320, 8329 >>, << 9312, 9320 >>,
      << 9332, 9340 >>, << 9352, 9360 >>, << 9450, 9450 >>, << 9461, 9469 >>,
      << 9471, 9471 >>, << 10102, 10110 >>, << 10112, 10120 >>,
      << 10122, 10130 >>, << 42528, 42537 >>, << 43216, 43225 >>,
      << 43264, 43273 >>, << 43472, 43481 >>, << 43504, 43513 >>,
      << 43600, 43609 >>, << 44016, 44025 >>, << 65296, 65305 >>,
      << 66720, 66729 >>, << 68160, 68163 >>, << 68912, 68921 >>,
      << 69216, 69224 >>, << 69714, 69722 >>, << 69734, 69743 >>,
      << 69872, 69881 >>, << 69942, 69951 >>, << 70096, 70105 >>,
      << 70384, 70393 >>, << 70736, 70745 >>, << 70864, 70873 >>,
      << 71248, 71257 >>, << 71360, 71369 >>, << 71472, 71481 >>,
      << 71904, 71913 >>, << 72016, 72025 >>, << 72784, 72793 >>,
      << 73040, 73049 >>, << 73120, 73129 >>, << 92768, 92777 >>,
      << 92864, 92873 >>, << 93008, 93017 >>, << 120782, 120831 >>,
      << 123200, 123209 >>, << 123632, 123641 >>, << 125264, 125273 >>,
      << 127232, 127242 >>, << 130032, 130041 >> }

str_isdigit(c) == \E r \in DigitRanges : c >= r[1] /\ c <= r[2]

digits_only(text) == SelectSeq(text, str_isdigit)

starts_with_506(digits) == Len(digits) >= 3 /\ SubSeq(digits, 1, 3) = << 53, 48, 54 >>

\* the 11-digit branch without the test of the leading 506
processed_number_any11(new_value) ==
    LET digits == digits_only(new_value) IN
    IF Len(digits) = 8 THEN << 43, 53, 48, 54 >> \o digits
    ELSE IF Len(digits) = 11 THEN << 43 >> \o digits
    ELSE digits

\* the 8-digit branch with the prefix 506 in place of +506
processed_number_no_plus(new_value) ==
    LET digits == digits_only(new_value) IN
    IF Len(digits) = 8 THEN << 53, 48, 54 >> \o digits
    ELSE IF Len(digits) = 11 /\ starts_with_506(digits) THEN << 43 >> \o digits
    ELSE digits

processed_number(new_value) ==
    LET digits == digits_only(new_value) IN
    IF Len(digits) = 8 THEN << 43, 53, 48, 54 >> \o digits
    ELSE IF Len(digits) = 11 /\ starts_with_506(digits) THEN << 43 >> \o digits
    ELSE digits

\* handle_new_value, lines 431-485: the message of the branch that returns
\* without an update, << >> when the value goes on to the update
refusal(field, new_value) ==
    IF field = "name" /\ ~validate_name(new_value) THEN << InvalidNameMsg >>
    ELSE IF field = "type"
         THEN (IF new_value \notin ValidTypes THEN << InvalidTypeMsg >> ELSE << >>)
    ELSE IF field = "photos" THEN << InvalidPhotosMsg >>
    ELSE IF field = "google_map" /\ ~validate_google_maps(new_value)
         THEN << InvalidMapMsg >>
    ELSE << >>

Outcome(data, msgs, exc) == [data |-> data, sent |-> msgs, raised |-> exc]

\* handle_new_value on the user_data d: the user_data afterwards, the messages
\* sent and whether an exception left the handler
handle_new_value(d, new_value) ==
    IF lower_equals(new_value, T_ShowInformation)
    THEN IF HasKey(d, "current_card")
         THEN Outcome(d, << CardMsg(d["current_card"]) >>, FALSE)
         ELSE Outcome(d, << >>, TRUE)
    ELSE IF ~HasKey(d, "current_card")
    THEN Outcome(d, << Msg("Error: 'current_card'", "none") >>, FALSE)
    ELSE IF ~HasKey(d, "field_to_update")
    THEN Outcome(d, << Msg("Error: 'field_to_update'", "none") >>, FALSE)
    ELSE LET field == d["field_to_update"]
             current_row == d["current_card"]
         IN  IF field \in DOMAIN current_row
             THEN IF refusal(field, new_value) # << >>
                  THEN Outcome(d, refusal(field, new_value), FALSE)
                  ELSE LET value == IF field \in {"phone_numbers", "Whatsapp"}
                                    THEN processed_number(new_value)
                                    ELSE new_value
                           row == [current_row EXCEPT ![field] = value]
                       IN  Outcome(Pop(SetItem(d, "current_card", row), "field_to_update"),
                                   << CardMsg(row), EditBarMsg >>, FALSE)
             ELSE Outcome(d, << Msg("Invalid field: " \o field, "none") >>, FALSE)

\* TelegramBot.button on the user_data d
button(d, data) ==
    IF data \in TypeButtons
    THEN IF ~HasKey(d, "current_card") THEN Outcome(d, << >>, TRUE)
         ELSE LET row == [d["current_card"] EXCEPT !["type"] = TypeText[data]]
                  typed == SetItem(d, "current_card", row)
              IN  IF ~HasKey(d, "field_to_update") THEN Outcome(typed, << >>, TRUE)
                  ELSE Outcome(Pop(typed, "field_to_update"),
                               << Msg("Type updated to " \o data, "none"),
                                  CardMsg(row), EditBarMsg >>, FALSE)
    ELSE LET selected == SetDefault(d, "field_to_update", data) IN
         IF selected["field_to_update"] = "type"
         THEN Outcome(selected, << ChooseTypeMsg >>, FALSE)
         ELSE Outcome(selected,
                      << Msg("Enter new value for " \o selected["field_to_update"], "none") >>,
                      FALSE)

Apply(u, outcome) ==
    /\ user_data' = [user_data EXCEPT ![u] = outcome.data]
    /\ sent' = outcome.sent
    /\ raised' = outcome.raised
    /\ updates' = updates + 1

HandleNewValue(u, text) ==
    /\ Route(text, FALSE) = "handle_new_value"
    /\ last' = Update("handle_new_value", u)
    /\ Apply(u, handle_new_value(user_data[u], text))
    /\ calls' = NoCalls
    /\ notified' = << >>
    /\ UNCHANGED << sheet, conversations, arg, ret, pc >>

Button(u, data) ==
    /\ last' = Update("button", u)
    /\ Apply(u, button(user_data[u], data))
    /\ calls' = NoCalls
    /\ notified' = << >>
    /\ UNCHANGED << sheet, conversations, arg, ret, pc >>

HandleExit(u, text, reply) ==
    /\ Route(text, reply) = "handle_exit"
    /\ last' = Update("handle_exit", u)
    /\ user_data' = [user_data EXCEPT ![u] = EmptyDict]
    /\ sent' = << Msg("You have returned to the main menu", "none") >> \o start(u)
    /\ calls' = [NoCalls EXCEPT !.auth = 1]
    /\ raised' = FALSE
    /\ notified' = << >>
    /\ updates' = updates + 1
    /\ UNCHANGED << sheet, conversations, arg, ret, pc >>

\* handle_save; write_ok is whether the calls of the sheet succeed, outcomes
\* the result of the post to each recipient
HandleSave(u, text, reply, write_ok, outcomes) ==
    /\ Route(text, reply) = "handle_save"
    /\ last' = Update("handle_save", u)
    /\ IF ~HasKey(user_data[u], "current_card")
       THEN /\ sent' = << Msg("You saved the place card", "none") >>
            /\ raised' = TRUE
            /\ calls' = NoCalls
            /\ notified' = << >>
            /\ UNCHANGED << user_data, sheet >>
       ELSE LET card == user_data[u]["current_card"]
                send == write_on_google_sheets(card, write_ok)
                note == send_notification(card, send.ret, outcomes)
            IN  /\ sheet' = send.rows
                /\ IF send.ret # NoObject
                   THEN /\ notified' = note.posts
                        /\ user_data' = [user_data EXCEPT ![u] = EmptyDict]
                        /\ sent' = << Msg("You saved the place card", "none"),
                                      CardMsg(card) >> \o start(u)
                        /\ calls' = [NoCalls EXCEPT !.write = 1, !.auth = 1]
                   ELSE /\ notified' = << >>
                        /\ sent' = << Msg("You saved the place card", "none"),
                                      CardMsg(card) >>
                        /\ calls' = [NoCalls EXCEPT !.write = 1]
                        /\ UNCHANGED user_data
                /\ raised' = FALSE
    /\ updates' = updates + 1
    /\ UNCHANGED << conversations, arg, ret, pc >>

\* the file paths Telegram gives for the photos users send
PhotoPaths == {"photos/file_1.jpg", "photos/file_2.jpg"}

\* add_photo: the entry point of the photo conversation, for the callback
\* data photos while the conversation of the user is not running
AddPhoto(u) ==
    /\ conversations[u] = 0
    /\ last' = Update("add_photo", u)
    /\ conversations' = [conversations EXCEPT ![u] = 1]
    /\ sent' = << Msg("Send photos below and then do /finish", "none") >>
    /\ calls' = NoCalls
    /\ raised' = FALSE
    /\ notified' = << >>
    /\ updates' = updates + 1
    /\ UNCHANGED << user_data, sheet, arg, ret, pc >>

\* photo_handler putting the file path at the head of the list
PhotoHandlerAtHead(u, file_path) ==
    /\ conversations[u] = 1
    /\ LET d == SetDefault(user_data[u], "photos_received", << >>)
           photos == << file_path >> \o d["photos_received"]
       IN  user_data' = [user_data EXCEPT ![u] = SetItem(d, "photos_received", photos)]
    /\ last' = Update("photo_handler", u)
    /\ sent' = << >>
    /\ calls' = NoCalls
    /\ raised' = FALSE
    /\ notified' = << >>
    /\ updates' = updates + 1
    /\ UNCHANGED << sheet, conversations, arg, ret, pc >>

\* photo_handler: a photo message while the conversation is in state 1
PhotoHandler(u, file_path) ==
    /\ conversations[u] = 1
    /\ LET d == SetDefault(user_data[u], "photos_received", << >>)
           photos == Append(d["photos_received"], file_path)
       IN  user_data' = [user_data EXCEPT ![u] = SetItem(d, "photos_received", photos)]
    /\ last' = Update("photo_handler", u)
    /\ sent' = << >>
    /\ calls' = NoCalls
    /\ raised' = FALSE
    /\ notified' = << >>
    /\ updates' = updates + 1
    /\ UNCHANGED << sheet, conversations, arg, ret, pc >>

\* models/google_services.py, GoogleDrive: what the calls of Drive do in one
\* upload_photo. search is "found", "absent", "error" (an HttpError, which
\* search_folder turns into None) or "raise" (another exception); create and
\* public are "ok", "error" or "raise"; the photo number failing, if any,
\* fails with failure: "download_error" (urlretrieve raises and no file is
\* written), "upload_error" (an HttpError of the upload) or "upload_raise".
\* A call that is not reached is "ok"; a photo fails in a folder that was
\* found and made public.  When no folder was found and create_folder
\* returned None after an HttpError, make_public_folder(folder_id=None) calls
\* permissions().create(fileId=None, ...): the client library drops an
\* argument that is None and raises TypeError for the required fileId before
\* any request is sent, which `except HttpError` does not catch, so public
\* is "raise" there.
DriveResults ==
    {io \in [search : {"found", "absent", "error", "raise"},
             create : {"ok", "error", "raise"},
             public : {"ok", "error", "raise"},
             failing : 0..MaxPhotos,
             failure : {"download_error", "upload_error", "upload_raise"}] :
        /\ io.search \in {"found", "raise"} => io.create = "ok"
        /\ (io.search = "raise" \/ io.create = "raise") => io.public = "ok"
        /\ (io.search # "raise" /\ io.create = "error") => io.public = "raise"
        /\ (io.search = "raise" \/ io.create = "raise" \/ io.public = "raise")
              => io.failing = 0
        /\ io.failing = 0 => io.failure = "download_error"
        /\ io.failing # 0 => (io.search = "found" /\ io.public = "ok")}

\* the IDs Drive gives to the folder found and to the folder created
T_FolderFound == << 70, 49 >>
T_FolderCreated == << 78, 49 >>

\* f"https://drive.google.com/drive/folders/{folder_id}?usp=drive_link"
folder_link(folder_id) ==
    << 104, 116, 116, 112, 115, 58, 47, 47, 100, 114, 105, 118, 101, 46, 103,
       111, 111, 103, 108, 101, 46, 99, 111, 109, 47, 100, 114, 105, 118,
       101, 47, 102, 111, 108, 100, 101, 114, 115, 47 >>
    \o format_value(folder_id)
    \o << 63, 117, 115, 112, 61, 100, 114, 105, 118, 101, 95, 108, 105, 110, 107 >>

\* upload_photo with `folder_id = self.create_folder(folder_name)` after
\* every search, whether or not a folder was found
upload_photo_creating_always(folder_name, links, io) ==
    LET creates == IF io.search = "raise" THEN 0 ELSE 1
        folder_id == IF io.create = "ok" THEN T_FolderCreated ELSE None
    IN
    IF io.search = "raise" \/ io.create = "raise"
       \/ folder_id = None \/ io.public = "raise"
    THEN [raised |-> TRUE, link |-> None, uploads |-> 0, creates |-> creates,
          folder |-> folder_id, attempted |-> << >>]
    ELSE IF /\ io.failing \in 1..Len(links)
            /\ io.failure \in {"download_error", "upload_raise"}
         THEN [raised |-> TRUE, link |-> None, uploads |-> io.failing,
               creates |-> creates, folder |-> folder_id,
               attempted |-> SubSeq(links, 1, io.failing)]
         ELSE [raised |-> FALSE, link |-> folder_link(folder_id),
               uploads |-> Len(links), creates |-> creates, folder |-> folder_id,
               attempted |-> links]

\* upload_photo: whether an exception leaves it, the link it returns and the
\* number of calls of upload_foto_in_spec_folder.  With no folder_id (nothing
\* found, nothing created) make_public_folder raises, see DriveResults
upload_photo(folder_name, links, io) ==
    LET creates == IF io.search \in {"found", "raise"} THEN 0 ELSE 1
        folder_id == IF io.search = "found" THEN T_FolderFound
                     ELSE IF io.create = "ok" THEN T_FolderCreated
                     ELSE None
    IN
    IF io.search = "raise" \/ (io.search # "found" /\ io.create = "raise")
       \/ folder_id = None \/ io.public = "raise"
    THEN [raised |-> TRUE, link |-> None, uploads |-> 0, creates |-> creates,
          folder |-> folder_id, attempted |-> << >>]
    ELSE IF /\ io.failing \in 1..Len(links)
            /\ io.failure \in {"download_error", "upload_raise"}
         THEN [raised |-> TRUE, link |-> None, uploads |-> io.failing,
               creates |-> creates, folder |-> folder_id,
               attempted |-> SubSeq(links, 1, io.failing)]
         ELSE [raised |-> FALSE, link |-> folder_link(folder_id),
               uploads |-> Len(links), creates |-> creates, folder |-> folder_id,
               attempted |-> links]

InitializingMsg == Msg("Initializing uploading process...", "none")
UploadErrorMsg == Msg("Error while uploading photos, try again", "none")
UploadedMsg == Msg("Photos has been uploaded", "none")

\* finish_photo on the user_data d: the user_data afterwards, the messages
\* sent, whether an exception left the handler, the state of the
\* conversation afterwards and the uploads tried
finish_photo(d, io) ==
    IF ~HasKey(d, "current_card")
    THEN [data |-> d, sent |-> << InitializingMsg, UploadErrorMsg >>, raised |-> TRUE,
          state |-> 1, uploads |-> 0]
    ELSE IF ~HasKey(d, "photos_received")
    THEN [data |-> d,
          sent |-> << InitializingMsg, UploadErrorMsg, CardMsg(d["current_card"]),
                      EditBarMsg >>,
          raised |-> FALSE, state |-> 0, uploads |-> 0]
    ELSE LET upload == upload_photo(d["current_card"]["name"], d["photos_received"], io)
             row == [d["current_card"] EXCEPT !["photos"] = upload.link]
         IN  IF upload.raised
             THEN [data |-> d,
                   sent |-> << InitializingMsg, UploadErrorMsg,
                               CardMsg(d["current_card"]), EditBarMsg >>,
                   raised |-> FALSE, state |-> 0, uploads |-> upload.uploads]
             ELSE [data |-> SetItem(SetItem(d, "photos_received", << >>),
                                    "current_card", row),
                   sent |-> << InitializingMsg, UploadedMsg, CardMsg(row), EditBarMsg >>,
                   raised |-> FALSE, state |-> 0, uploads |-> upload.uploads]

\* finish_photo: the fallback of the photo conversation, for the command
\* /finish while the conversation is in state 1
FinishPhoto(u, io) ==
    /\ conversations[u] = 1
    /\ last' = Update("finish_photo", u)
    /\ LET outcome == finish_photo(user_data[u], io)
       IN  /\ Apply(u, outcome)
           /\ conversations' = [conversations EXCEPT ![u] = outcome.state]
           /\ calls' = [NoCalls EXCEPT !.upload = outcome.uploads]
    /\ notified' = << >>
    /\ UNCHANGED << sheet, arg, ret, pc >>

\* The updates are handled one after another (ApplicationBuilder leaves
\* concurrent_updates off), and every handler above takes its update in
\* every state, from every user.  The number of updates a behaviour holds
\* has no limit in the code: the behaviours followed hold at most MaxUpdates
Bounded == updates' <= MaxUpdates

\* a step of a handler that is followed
Followed(step) == step /\ Bounded

Init ==
    /\ IdleSession
    /\ pc = "session"
    /\ arg = << >>
    /\ ret = FALSE

Next ==
    \/ \E u \in Users, m \in StartMessages :
           Followed(StartCommand(u, m.text, m.reply))
    \/ \E u \in Users : Followed(ButtonHandler(u))
    \/ \E u \in Users : Followed(ShowUnfilledPlaces(u))
    \/ \E u \in Users, user_location \in Locations :
           Followed(HandleLocation(u, user_location))
    \/ \E u \in Users, text \in ReplyTexts, read_ok \in BOOLEAN :
           Followed(HandleCompanyName(u, text, read_ok))
    \/ \E u \in Users, text \in PlainTexts : Followed(HandleNewValue(u, text))
    \/ \E u \in Users, data \in FieldButtons \cup TypeButtons :
           Followed(Button(u, data))
    \/ \E u \in Users, m \in Messages : Followed(HandleExit(u, m.text, m.reply))
    \/ \E u \in Users, m \in Messages, io \in SaveResults :
           Followed(HandleSave(u, m.text, m.reply, io.write_ok, io.outcomes))
    \/ \E u \in Users : Followed(AddPhoto(u))
    \/ \E u \in Users, file_path \in PhotoPaths :
           Followed(PhotoHandler(u, file_path))
    \/ \E u \in Users, io \in DriveResults : Followed(FinishPhoto(u, io))

Spec == Init /\ [][Next]_vars

\* the menu and the lookup: the updates that lead to a record
NextMenu ==
    \/ \E u \in Users, m \in StartMessages :
           Followed(StartCommand(u, m.text, m.reply))
    \/ \E u \in Users : Followed(ButtonHandler(u))
    \/ \E u \in Users : Followed(ShowUnfilledPlaces(u))
    \/ \E u \in Users, user_location \in Locations :
           Followed(HandleLocation(u, user_location))
    \/ \E u \in Users, text \in ReplyTexts, read_ok \in BOOLEAN :
           Followed(HandleCompanyName(u, text, read_ok))
    \/ \E u \in Users, data \in FieldButtons : Followed(Button(u, data))
    \/ \E u \in Users, m \in Messages : Followed(HandleExit(u, m.text, m.reply))

SpecMenu == Init /\ [][NextMenu]_vars

\* the bot with the photo conversation, without typed values and saves
NextPhoto ==
    \/ \E u \in Users : Followed(StartCommand(u, T_SlashStart, FALSE))
    \/ \E u \in Users, text \in ReplyTexts, read_ok \in BOOLEAN :
           Followed(HandleCompanyName(u, text, read_ok))
    \/ \E u \in Users, data \in FieldButtons \cup TypeButtons :
           Followed(Button(u, data))
    \/ \E u \in Users : Followed(AddPhoto(u))
    \/ \E u \in Users, file_path \in PhotoPaths :
           Followed(PhotoHandler(u, file_path))
    \/ \E u \in Users, io \in DriveResults : Followed(FinishPhoto(u, io))
    \/ \E u \in Users, m \in Messages : Followed(HandleExit(u, m.text, m.reply))

SpecPhoto == Init /\ [][NextPhoto]_vars

-----------------------------------------------------------------------------
(* The photo conversation of a session *)

\* the pending lists a session can hold
RECURSIVE PhotoLists(_)
PhotoLists(n) ==
    IF n = 0 THEN { << >> }
    ELSE LET shorter == PhotoLists(n - 1) IN
         shorter \cup {Append(l, p) : l \in {k \in shorter : Len(k) = n - 1},
                                       p \in PhotoPaths}

\* the sessions of user 5 in which /finish can arrive: the record of FirstRow
\* with or without a selected field and with or without a pending list, and
\* the empty session left by Exit
PhotoSessions ==
    LET card == [f \in CardFields |-> FirstRow[f]]
        loaded == SetItem(EmptyDict, "current_card", card)
        selected == SetItem(loaded, "field_to_update", "name")
    IN  {EmptyDict, loaded, selected}
        \cup {SetItem(d, "photos_received", l) :
                 d \in {EmptyDict, loaded, selected}, l \in PhotoLists(MaxPhotos - 1)}

InitFinish ==
    /\ \E d \in PhotoSessions :
           user_data = [u \in Users |-> IF u = 5 THEN d ELSE EmptyDict]
    /\ sheet = << FirstRow >>
    /\ sent = << >>
    /\ last = NoUpdate
    /\ calls = NoCalls
    /\ raised = FALSE
    /\ notified = << >>
    /\ conversations = [u \in Users |-> IF u = 5 THEN 1 ELSE 0]
    /\ updates = 0
    /\ pc = "session"
    /\ arg = << >>
    /\ ret = FALSE

NextFinish ==
    \/ \E u \in Users : Followed(AddPhoto(u))
    \/ \E u \in Users, file_path \in PhotoPaths :
           Followed(PhotoHandler(u, file_path))
    \/ \E u \in Users, io \in DriveResults : Followed(FinishPhoto(u, io))

SpecFinish == InitFinish /\ [][NextFinish]_vars

-----------------------------------------------------------------------------
(* Direct calls of GoogleDrive.upload_photo *)

InitUpload ==
    /\ IdleSession
    /\ pc = "call"
    /\ arg \in [folder_name : {T_Ab, T_Cd}, links : PhotoLists(MaxPhotos),
                io : DriveResults]
    /\ ret = << >>

CallUpload ==
    /\ pc = "call"
    /\ ret' = upload_photo(arg.folder_name, arg.links, arg.io)
    /\ pc' = "done"
    /\ UNCHANGED << session_vars, arg >>

SpecUpload == InitUpload /\ [][CallUpload]_vars

-----------------------------------------------------------------------------
(* Two conversations at once *)

\* the sessions a user can hold when the updates of the other arrive: none,
\* the record a lookup of a name loaded, and that record with a selected
\* field and a photo received by the running photo conversation
TwoSessions ==
    LET loaded(company_name) ==
            SetItem(EmptyDict, "current_card",
                    search_name_in_df(<< FirstRow >>, company_name).card)
        pending(company_name) ==
            SetItem(SetItem(loaded(company_name), "field_to_update", "name"),
                    "photos_received", << "photos/file_1.jpg" >>)
    IN  {[data |-> EmptyDict, state |-> 0]}
        \cup {[data |-> loaded(company_name), state |-> 0] :
                 company_name \in {T_Ab, T_Cd}}
        \cup {[data |-> pending(company_name), state |-> 1] :
                 company_name \in {T_Ab, T_Cd}}

InitTwo ==
    /\ \E held \in [Users -> TwoSessions] :
           /\ user_data = [u \in Users |-> held[u].data]
           /\ conversations = [u \in Users |-> held[u].state]
    /\ sheet = << FirstRow >>
    /\ sent = << >>
    /\ last = NoUpdate
    /\ calls = NoCalls
    /\ raised = FALSE
    /\ notified = << >>
    /\ updates = 0
    /\ pc = "session"
    /\ arg = << >>
    /\ ret = FALSE

\* the calls of Drive of an upload in which nothing fails
TwoDriveResults ==
    {io \in DriveResults :
        /\ io.search = "found"
        /\ io.public = "ok"
        /\ io.failing = 0}

\* the updates of the two users in any order
NextTwo ==
    \/ \E u \in Users, text \in {T_Ab, T_Cd} :
           Followed(HandleCompanyName(u, text, TRUE))
    \/ \E u \in Users, text \in {T_Cd, T_ShowInformation} :
           Followed(HandleNewValue(u, text))
    \/ \E u \in Users : Followed(Button(u, "name"))
    \/ \E u \in Users : Followed(AddPhoto(u))
    \/ \E u \in Users : Followed(PhotoHandler(u, "photos/file_1.jpg"))
    \/ \E u \in Users, io \in TwoDriveResults : Followed(FinishPhoto(u, io))
    \/ \E u \in Users : Followed(HandleExit(u, T_Exit, FALSE))

SpecTwo == InitTwo /\ [][NextTwo]_vars

-----------------------------------------------------------------------------
(* The edits of a record: fields, types and photos *)

\* every handler that reads or writes the record of a session, without Save
\* the texts of a session that are no reply: a value and the phrase of
\* handle_new_value in two spellings
RecordTexts == {T_Cd, T_ShowInformation, T_ShowCapitals}

NextRecord ==
    \/ \E u \in Users, text \in {T_Ab, T_Cd}, read_ok \in BOOLEAN :
           Followed(HandleCompanyName(u, text, read_ok))
    \/ \E u \in Users, text \in RecordTexts : Followed(HandleNewValue(u, text))
    \/ \E u \in Users, data \in FieldButtons \cup TypeButtons :
           Followed(Button(u, data))
    \/ \E u \in Users : Followed(AddPhoto(u))
    \/ \E u \in Users : Followed(PhotoHandler(u, "photos/file_1.jpg"))
    \/ \E u \in Users, io \in TwoDriveResults : Followed(FinishPhoto(u, io))
    \/ \E u \in Users : Followed(HandleExit(u, T_Exit, FALSE))

SpecRecord == Init /\ [][NextRecord]_vars

-----------------------------------------------------------------------------
(* The attempts of a save and of a finish *)

\* the photo conversation of a session, and Save with every outcome of the
\* write and of the posts
NextAttempts ==
    \/ NextFinish
    \/ \E u \in Users, io \in SaveResults :
           Followed(HandleSave(u, T_Save, FALSE, io.write_ok, io.outcomes))

SpecAttempts == InitFinish /\ [][NextAttempts]_vars

-----------------------------------------------------------------------------
(* handle_new_value on a session with any field_to_update *)

\* values of field_to_update: the names the buttons give, and names that
\* are no key of a record
FieldNames == FieldButtons \cup {"address", "rating"}

\* the sessions of user 5: the record of FirstRow, a field_to_update and
\* with or without pending photos
FieldSessions ==
    LET card == [f \in CardFields |-> FirstRow[f]]
        loaded == SetItem(EmptyDict, "current_card", card)
        selected == {SetItem(loaded, "field_to_update", field) : field \in FieldNames}
    IN  selected
        \cup {SetItem(d, "photos_received", l) :
                 d \in selected, l \in PhotoLists(MaxPhotos - 1)}

InitField ==
    /\ \E d \in FieldSessions :
           user_data = [u \in Users |-> IF u = 5 THEN d ELSE EmptyDict]
    /\ sheet = << FirstRow >>
    /\ sent = << >>
    /\ last = NoUpdate
    /\ calls = NoCalls
    /\ raised = FALSE
    /\ notified = << >>
    /\ conversations = [u \in Users |-> 0]
    /\ updates = 0
    /\ pc = "session"
    /\ arg = << >>
    /\ ret = FALSE

NextField ==
    \/ \E u \in Users, text \in PlainTexts \cup {T_Slash} :
           Followed(HandleNewValue(u, text))
    \/ \E u \in Users, data \in FieldButtons : Followed(Button(u, data))

SpecField == InitField /\ [][NextField]_vars

-----------------------------------------------------------------------------
(* Two sessions that create records *)

\* "Ef": a name no row has, like "Cd"
T_Ef == << 69, 102 >>

\* user 5 has looked up "Cd" on the sheet of FirstRow and holds the record
\* that was created; the other user has done nothing yet
InitMint ==
    /\ user_data = [u \in Users |->
                       IF u = 5
                       THEN SetItem(EmptyDict, "current_card",
                                    search_name_in_df(<< FirstRow >>, T_Cd).card)
                       ELSE EmptyDict]
    /\ sheet = << FirstRow >>
    /\ sent = << >>
    /\ last = NoUpdate
    /\ calls = NoCalls
    /\ raised = FALSE
    /\ notified = << >>
    /\ conversations = [u \in Users |-> 0]
    /\ updates = 0
    /\ pc = "session"
    /\ arg = << >>
    /\ ret = FALSE

\* lookups and saves of the two users in any order; the writes succeed
NextMint ==
    \/ \E u \in Users, text \in {T_Cd, T_Ef} :
           Followed(HandleCompanyName(u, text, TRUE))
    \/ \E u \in Users, outcomes \in Outcomes :
           Followed(HandleSave(u, T_Save, FALSE, TRUE, outcomes))

SpecMint == InitMint /\ [][NextMint]_vars

-----------------------------------------------------------------------------
(* Direct calls of the phone normalisation of handle_new_value *)

Rep(c, n) == [i \in 1..n |-> c]

T_Phone == << 56, 56, 56, 56, 55, 55, 55, 55 >>

\* digit strings of every length up to MaxDigits: all 8s, and 7s after a
\* leading 506 or 605; the number 88887777; and eight and eleven fullwidth 8s
PlainBodies ==
    {Rep(56, n) : n \in 0..MaxDigits}
    \cup {T_Phone}
    \cup {Rep(65304, n) : n \in {8, 11}}
    \cup {<< 53, 48, 54 >> \o Rep(55, n) : n \in 0..(MaxDigits - 3)}
    \cup {<< 54, 48, 53 >> \o Rep(55, n) : n \in 0..(MaxDigits - 3)}

\* the same with a hyphen after the fourth digit
DashedBodies ==
    {SubSeq(b, 1, 4) \o << 45 >> \o SubSeq(b, 5, Len(b)) :
        b \in {x \in PlainBodies : Len(x) >= 4}}

\* what stands before and after the digits: nothing, "+", a space, a letter,
\* a superscript two, an Arabic-Indic three, an Extended Arabic-Indic seven,
\* a fullwidth five
PhonePads == { << >>, << 43 >>, << 32 >>, << 97 >>, << 178 >>, << 1635 >>,
               << 1783 >>, << 65301 >> }

PhoneInputs ==
    {pre \o b \o suf : pre \in PhonePads, suf \in PhonePads,
                        b \in PlainBodies \cup DashedBodies}

InitPhone ==
    /\ IdleSession
    /\ pc = "call"
    /\ arg \in PhoneInputs
    /\ ret = << >>

CallProcessedNumber ==
    /\ pc = "call"
    /\ ret' = processed_number(arg)
    /\ pc' = "done"
    /\ UNCHANGED << session_vars, arg >>

\* the stored value is submitted as a new value of the field
CallProcessedNumberAgain ==
    /\ pc = "done"
    /\ ret' = processed_number(ret)
    /\ pc' = "again"
    /\ UNCHANGED << session_vars, arg >>

NextPhone == CallProcessedNumber \/ CallProcessedNumberAgain

SpecPhone == InitPhone /\ [][NextPhone]_vars

-----------------------------------------------------------------------------
(* Saves of an edited record over a row of the sheet *)

T_Hours == << 57, 45, 53 >>
T_PhoneSaved == << 43, 53, 48, 54 >> \o T_Phone

\* records a session can hold for the place of FirstRow after edits; the
\* type is None in a record that was created before the row was written
EditedCards ==
    {[f \in CardFields |->
         CASE f = "ID" -> FirstRow["ID"]
           [] f = "name" -> T_Ab
           [] f = "type" -> type
           [] f = "google_map" -> google_map
           [] f = "phone_numbers" -> phone_numbers
           [] f = "hours_of_operation" -> hours_of_operation
           [] OTHER -> << >>] :
       type \in {T_Services, None}, google_map \in {<< >>, T_Link},
       phone_numbers \in {<< >>, T_PhoneSaved},
       hours_of_operation \in {<< >>, T_Ab, T_Hours}}

\* rows the sheet can hold for that place
StoredRows ==
    {[h \in HeaderSet |->
         CASE h = "ID" -> FirstRow["ID"]
           [] h = "name" -> name
           [] h = "type" -> type
           [] h = "google_map" -> google_map
           [] h = "phone_numbers" -> phone_numbers
           [] h = "hours_of_operation" -> hours_of_operation
           [] h = "data_manager" -> data_manager
           [] OTHER -> << >>] :
       name \in {T_Ab, T_Cd}, type \in {<< >>, T_Services},
       google_map \in {<< >>, T_Link}, phone_numbers \in {<< >>, T_PhoneSaved},
       hours_of_operation \in {<< >>, T_Ab}, data_manager \in {<< >>, << 77 >>}}

InitSave ==
    /\ \E card \in EditedCards :
           user_data = [u \in Users |->
                           IF u = 5 THEN SetItem(EmptyDict, "current_card", card)
                           ELSE EmptyDict]
    /\ \E row \in StoredRows : sheet = << row >>
    /\ sent = << >>
    /\ last = NoUpdate
    /\ calls = NoCalls
    /\ raised = FALSE
    /\ notified = << >>
    /\ conversations = [u \in Users |-> 0]
    /\ updates = 0
    /\ pc = "session"
    /\ arg = << >>
    /\ ret = FALSE

NextSave ==
    \E u \in Users, io \in SaveResults :
        Followed(HandleSave(u, T_Save, FALSE, io.write_ok, io.outcomes))

SpecSave == InitSave /\ [][NextSave]_vars

-----------------------------------------------------------------------------
(* Direct calls of write_on_google_sheets *)

\* a row of the sheet with the ID prefix + str(n)
SheetRows(n) ==
    {[h \in HeaderSet |->
         CASE h = "ID" -> IdPrefix \o str(n)
           [] h = "name" -> IF n = 310 THEN T_Ab ELSE T_Cd
           [] h = "type" -> type
           [] h = "hours_of_operation" -> hours_of_operation
           [] h = "data_manager" -> data_manager
           [] OTHER -> << >>] :
       type \in {<< >>, T_Services}, hours_of_operation \in {<< >>, T_Ab},
       data_manager \in {<< >>, << 77 >>}}

\* the data rows of the sheet: none, one or two places
Sheets ==
    { << >> } \cup {<< r >> : r \in SheetRows(310)}
    \cup {<< r, q >> : r \in SheetRows(310), q \in SheetRows(311)}

\* the records handle_save passes: the eight fields of a card, the type None
\* in a record that was created and not given a type
Organizations ==
    {[f \in CardFields |->
         CASE f = "ID" -> IdPrefix \o str(n)
           [] f = "name" -> name
           [] f = "type" -> type
           [] f = "hours_of_operation" -> hours_of_operation
           [] OTHER -> << >>] :
       n \in 310..312, name \in {T_Ab, T_Cd}, type \in {<< >>, T_Services, None},
       hours_of_operation \in {<< >>, T_Hours}}

InitWrite ==
    /\ user_data = [u \in Users |-> EmptyDict]
    /\ sheet \in Sheets
    /\ sent = << >>
    /\ last = NoUpdate
    /\ calls = NoCalls
    /\ raised = FALSE
    /\ notified = << >>
    /\ conversations = [u \in Users |-> 0]
    /\ updates = 0
    /\ pc = "call"
    /\ arg \in [organization : Organizations, ok : BOOLEAN]
    /\ ret = << >>

CallWrite ==
    /\ pc = "call"
    /\ LET send == write_on_google_sheets(arg.organization, arg.ok)
       IN  /\ ret' = send.ret
           /\ sheet' = send.rows
    /\ pc' = "done"
    /\ UNCHANGED << user_data, sent, last, calls, raised, notified, conversations,
                    updates, arg >>

SpecWrite == InitWrite /\ [][CallWrite]_vars

-----------------------------------------------------------------------------
(* Properties *)

AllowList == {id_list[i] : i \in DOMAIN id_list}

HasCard(u) == HasKey(user_data[u], "current_card")

\* the states of the edit session of a user
CardDisplayed(u) == HasCard(u) /\ ~HasKey(user_data[u], "field_to_update")

FieldSelected(u, field) ==
    /\ HasCard(u)
    /\ HasKey(user_data[u], "field_to_update")
    /\ user_data[u]["field_to_update"] = field

Blank(value) == value = None \/ value = << >>

\* C1: for a user id that is not in the allow-list the start command sends
\* exactly one message, "Your ID is not authorized", without the menu, and
\* changes nothing of the session: a user without a session stays without.
C1_StartUnauthorized ==
    [][(last'.h = "start" /\ last'.u \notin AllowList) =>
          /\ sent' = << NotAuthorizedMsg >>
          /\ \A i \in DOMAIN sent' : sent'[i].markup # "menu"
          /\ user_data' = user_data
          /\ sheet' = sheet]_vars

C1_Witness ==
    /\ last = Update("start", 9)
    /\ 9 \notin AllowList
    /\ sent = << NotAuthorizedMsg >>
    /\ user_data[9] = EmptyDict

\* C2: for a user id in the allow-list the start command looks the id up
\* once, sends exactly one message, "Hi! Choose an action:" with the menu of
\* two buttons, and changes no session state.
C2_StartAuthorized ==
    [][(last'.h = "start" /\ last'.u \in AllowList) =>
          /\ calls'.auth = 1
          /\ sent' = << Msg("Hi! Choose an action:", "menu") >>
          /\ user_data' = user_data
          /\ sheet' = sheet]_vars

C2_Witness ==
    /\ last = Update("start", 5)
    /\ 5 \in AllowList
    /\ sent = << MenuMsg >>
    /\ calls.auth = 1

\* C3: auth(user_id) returns a user whose user_id is the argument exactly
\* when the argument is an element of id_list, and None for every other id.
C3_AuthContract ==
    pc = "done" =>
        /\ arg \in AllowList => (ret # NoObject /\ ret.user_id = arg)
        /\ arg \notin AllowList => ret = NoObject

C3_Witness ==
    /\ pc = "done"
    /\ arg = id_list[Len(id_list)]
    /\ ret # NoObject
    /\ ret.user_id = arg

\* C4: an edit session exists only for a user of the allow-list, and a user
\* who is not in the allow-list makes no handler read or write the store.
C4_SessionsOnlyForAllowed ==
    /\ \A u \in Users : HasCard(u) => u \in AllowList
    /\ last.u \in Users \ AllowList => (calls.read = 0 /\ calls.write = 0)

\* C5: a valid name that no row of the store has gives the session a new
\* record with that name, a fresh non-blank ID and every other field blank;
\* the session is in CardDisplayed and the store is not written.
C5_NewRecordOnUnknownName ==
    [][\A u \in Users, text \in ReplyTexts :
          (/\ HandleCompanyName(u, text, TRUE)
           /\ validate_name(text)
           /\ \A i \in DOMAIN sheet : sheet[i]["name"] # text)
          =>
          /\ HasKey(user_data'[u], "current_card")
          /\ LET card == user_data'[u]["current_card"] IN
                /\ card["name"] = text
                /\ ~Blank(card["ID"])
                /\ \A i \in DOMAIN sheet : sheet[i]["ID"] # card["ID"]
                /\ \A f \in CardFields \ {"name", "ID"} : Blank(card[f])
          /\ ~HasKey(user_data'[u], "field_to_update")
          /\ calls'.write = 0
          /\ sheet' = sheet]_vars

\* C6: after handle_company_name accepts a valid name, the record of the
\* session is the record found or created for that name, whatever the session
\* held before.
C6_SessionHoldsLookedUpRecord ==
    [][\A u \in Users, text \in ReplyTexts :
          (HandleCompanyName(u, text, TRUE) /\ validate_name(text))
          =>
          /\ HasKey(user_data'[u], "current_card")
          /\ user_data'[u]["current_card"] = search_name_in_df(sheet, text).card]_vars

\* C7: a name that fails validate_name makes handle_company_name neither
\* read nor write the store and leaves every session as it is; the user gets
\* the prompt for a name again, as the last message.
C7_InvalidNameRefused ==
    [][last'.h = "handle_company_name" =>
          \A text \in ReplyTexts, read_ok \in BOOLEAN :
              (~validate_name(text) /\ HandleCompanyName(last'.u, text, read_ok))
              =>
              /\ calls'.read = 0
              /\ calls'.write = 0
              /\ sheet' = sheet
              /\ user_data' = user_data
              /\ ~raised'
              /\ Len(sent') >= 1
              /\ sent'[Len(sent')] = NamePromptMsg]_vars

C7_Witness ==
    /\ last.h = "handle_company_name"
    /\ sent = << InvalidNameReplyMsg, NamePromptMsg >>
    /\ calls.read = 0
    /\ ~raised

\* the rule of names: Latin letters, the Cyrillic letters U+0400-U+045F,
\* white space and apostrophes
NameRuleChar(c) ==
    IsLatinLetter(c) \/ (c >= 1024 /\ c <= 1119) \/ c \in Whitespace \/ c = 39

NameRule(name) == name # << >> /\ \A i \in DOMAIN name : NameRuleChar(name[i])

\* C8: validate_name is true for every non-empty string of Latin or Cyrillic
\* letters, white space and apostrophes, and false for the empty string and
\* for every string with another character.
C8_ValidateNameContract == pc = "done" => (ret <=> NameRule(arg))

\* C9: in FieldSelected for the type, a typed value that is not one of the
\* three types leaves the record and field_to_update as they are and is
\* answered by the prompt with exactly the three type buttons.
C9_InvalidTypeReprompts ==
    [][\A u \in Users, text \in PlainTexts :
          (/\ HandleNewValue(u, text)
           /\ FieldSelected(u, "type")
           /\ text \notin ValidTypes)
          =>
          /\ user_data'[u] = user_data[u]
          /\ Len(sent') = 1
          /\ sent'[1].markup = "types"]_vars

\* a short link: the prefix followed by one or more letters or digits
ShortLink(url) ==
    /\ Len(url) > Len(MapsPrefix)
    /\ SubSeq(url, 1, Len(MapsPrefix)) = MapsPrefix
    /\ \A i \in (Len(MapsPrefix) + 1)..Len(url) : IsAlnum(url[i])

\* C10: in FieldSelected for the name or the map link, a value that fails
\* the rule of the field (for the map link: anything but a short link)
\* leaves the record as it is and the field selected.
C10_InvalidValueKeepsField ==
    [][\A u \in Users, text \in PlainTexts :
          (/\ HandleNewValue(u, text)
           /\ \/ FieldSelected(u, "name") /\ ~validate_name(text)
              \/ FieldSelected(u, "google_map") /\ ~ShortLink(text))
          =>
          /\ HasKey(user_data'[u], "current_card")
          /\ user_data'[u]["current_card"] = user_data[u]["current_card"]
          /\ HasKey(user_data'[u], "field_to_update")
          /\ user_data'[u]["field_to_update"] = user_data[u]["field_to_update"]]_vars

\* a digit: a character Unicode classes as a digit, which are the ASCII digits
\* and, among the characters tried, the superscript, Arabic-Indic, Extended
\* Arabic-Indic and fullwidth digits
DigitChar(c) ==
    c \in (48..57) \cup {178, 179, 185} \cup (1632..1641) \cup (1776..1785)
          \cup (65296..65305)

DigitsOf(x) == SelectSeq(x, DigitChar)

CountryCode == << 53, 48, 54 >>

PrefixedEleven(d) == Len(d) = 11 /\ SubSeq(d, 1, 3) = CountryCode

PhoneRule(x) ==
    LET d == DigitsOf(x) IN
    IF Len(d) = 8 THEN << 43 >> \o CountryCode \o d
    ELSE IF PrefixedEleven(d) THEN << 43 >> \o d
    ELSE d

\* C11: the stored phone or WhatsApp value is the digits of the input, with
\* "+506" before exactly 8 digits, "+" before exactly 11 digits that start
\* with 506, and bare otherwise; the handler refuses no input of these fields.
C11_PhoneNormalisation ==
    pc = "done" =>
        /\ ret = PhoneRule(arg)
        /\ refusal("phone_numbers", arg) = << >>
        /\ refusal("Whatsapp", arg) = << >>

C11_Witness ==
    /\ pc = "done"
    /\ arg = T_Phone
    /\ ret = << 43, 53, 48, 54 >> \o T_Phone

\* C12: for an input with exactly 8 digits, or with exactly 11 digits that
\* start with 506, normalising the normalised value gives the same value.
C12_PhoneStable ==
    [][(/\ pc = "done"
        /\ pc' = "again"
        /\ Len(DigitsOf(arg)) = 8 \/ PrefixedEleven(DigitsOf(arg)))
       => ret' = ret]_vars

C12_Witness ==
    /\ pc = "again"
    /\ Len(DigitsOf(arg)) = 8
    /\ ret = << 43 >> \o CountryCode \o DigitsOf(arg)

\* a non-reply text message of the user, whichever handler it is routed to
Submits(u, text) ==
    \/ HandleNewValue(u, text)
    \/ HandleExit(u, text, FALSE)
    \/ \E io \in SaveResults : HandleSave(u, text, FALSE, io.write_ok, io.outcomes)

\* the values the rule of a field accepts; for the phone fields the values
\* that are already in the stored form
ValidFor(field, value) ==
    CASE field = "name" -> validate_name(value)
      [] field = "type" -> value \in ValidTypes
      [] field = "google_map" -> ShortLink(value)
      [] field \in {"phone_numbers", "Whatsapp"} -> PhoneRule(value) = value
      [] OTHER -> TRUE

\* C13: with a field selected, submitting a value that is valid for the
\* field leaves the session with the record's field equal to the value, every
\* other field as it was and field_to_update cleared.
C13_EditRoundTrip ==
    [][\A u \in Users, f \in FieldButtons, text \in PlainTexts :
          (/\ FieldSelected(u, f)
           /\ ValidFor(f, text)
           /\ Submits(u, text))
          =>
          /\ HasKey(user_data'[u], "current_card")
          /\ ~HasKey(user_data'[u], "field_to_update")
          /\ user_data'[u]["current_card"] =
                 [user_data[u]["current_card"] EXCEPT ![f] = text]]_vars

\* the prompt that asks for a value of a field
PromptFor(field) ==
    IF field = "type" THEN ChooseTypeMsg
    ELSE Msg("Enter new value for " \o field, "none")

\* C14: pressing a field button in a session with a record makes
\* field_to_update the pressed field and sends the prompt of that field, also
\* when another field was selected before.
C14_ButtonSelectsPressedField ==
    [][\A u \in Users, f \in FieldButtons :
          (HasCard(u) /\ Button(u, f))
          =>
          /\ HasKey(user_data'[u], "field_to_update")
          /\ user_data'[u]["field_to_update"] = f
          /\ sent' = << PromptFor(f) >>]_vars

\* C15: Exit in a session with a record, with or without a selected field
\* and pending photos, leaves nothing in the session, writes nothing to the
\* store and sends the menu after "You have returned to the main menu".
C15_ExitDiscardsSession ==
    [][\A u \in Users, m \in Messages :
          (HasCard(u) /\ HandleExit(u, m.text, m.reply))
          =>
          /\ user_data'[u] = EmptyDict
          /\ sheet' = sheet
          /\ calls'.write = 0
          /\ sent' = << Msg("You have returned to the main menu", "none"), MenuMsg >>]_vars

\* the same for the users of the allow-list
ExitDiscardsSessionOfAllowed ==
    [][\A u \in Users \cap AllowList, m \in Messages :
          (HasCard(u) /\ HandleExit(u, m.text, m.reply))
          =>
          /\ user_data'[u] = EmptyDict
          /\ sheet' = sheet
          /\ calls'.write = 0
          /\ sent' = << Msg("You have returned to the main menu", "none"), MenuMsg >>]_vars

\* Exit was sent with a record, a selected field and pending photos
ExitWithPendingPhotos ==
    \E u \in Users :
        /\ FieldSelected(u, "name")
        /\ HasKey(user_data[u], "photos_received")
        /\ user_data[u]["photos_received"] # << >>
        /\ ENABLED HandleExit(u, T_Exit, FALSE)

\* the fields, in the order of the record, that the snapshot has with
\* another value
ChangedFields(record, snapshot) ==
    SelectSeq(CardOrder, LAMBDA f : f \in DOMAIN snapshot /\ record[f] # snapshot[f])

\* "{n}. {field}: {old} -> {new}"
ChangeLine(n, field, old, new) ==
    str(n) \o << 46, 32 >> \o KeyText(field) \o << 58, 32 >> \o format_value(old)
    \o << 32, 45, 62, 32 >> \o format_value(new)

\* the lines of the change list of a record against a snapshot
ChangeList(record, snapshot) ==
    LET fs == ChangedFields(record, snapshot) IN
    [i \in 1..Len(fs) |-> ChangeLine(i, fs[i], snapshot[fs[i]], record[fs[i]])]

\* the text of lines from line i on, one under the other
RECURSIVE ListText(_, _)
ListText(lines, i) ==
    IF i > Len(lines) THEN << >>
    ELSE lines[i] \o (IF i < Len(lines) THEN << 10 >> ELSE << >>) \o ListText(lines, i + 1)

\* what a MarkdownV2 text shows: a backslash stands for the character after it
\* character i of text is a backslash that stands for the character after
\* it: the backslashes before it pair up
Escaping(text, i) ==
    /\ text[i] = 92
    /\ i < Len(text)
    /\ LET others == {j \in 1..(i - 1) : text[j] # 92}
           before == IF others = {} THEN 0
                     ELSE CHOOSE j \in others : \A k \in others : k <= j
       IN  (i - 1 - before) % 2 = 0

\* the text is taken by halves that do not part a backslash from its
\* character
RECURSIVE Shown(_)
Shown(text) ==
    IF Len(text) <= 1 THEN text
    ELSE IF Len(text) = 2 THEN (IF text[1] = 92 THEN << text[2] >> ELSE text)
    ELSE LET half == Len(text) \div 2
             cut == IF Escaping(text, half) THEN half + 1 ELSE half
         IN  Shown(SubSeq(text, 1, cut)) \o Shown(SubSeq(text, cut + 1, Len(text)))

\* the change list a notification of the record against the snapshot shows
ChangesOf(record, snapshot) == ListText(ChangeList(record, snapshot), 1)

\* the row of the sheet with the ID of the record of the session
RowOf(u) == existing_row_index(sheet, user_data[u]["current_card"]["ID"])

\* a Save of the user whose write succeeds
SavesWritten(u, outcomes) == HandleSave(u, T_Save, FALSE, TRUE, outcomes)

\* C16: a Save whose write finds the row of the record makes one write,
\* after which the row holds the record; every delivery carries the changes
\* between the record and the values the write returned, the first
\* recipient is tried, the session is empty afterwards and the menu is the
\* last message.
C16_SaveOfExistingRow ==
    [][\A u \in Users, outcomes \in Outcomes :
          (/\ HasCard(u)
           /\ RowOf(u) # 0
           /\ SavesWritten(u, outcomes))
          =>
          LET record == user_data[u]["current_card"]
              snapshot == write_on_google_sheets(record, TRUE).ret
          IN  /\ calls'.write = 1
              /\ \A f \in CardFields :
                     record[f] # None => sheet'[RowOf(u)][f] = record[f]
              /\ Len(notified') >= 1
              /\ \A i \in DOMAIN notified' :
                     /\ notified'[i].chat_id = id_notification_list[i]
                     /\ Shown(notified'[i].message.changes) = ChangesOf(record, snapshot)
              /\ user_data'[u] = EmptyDict
              /\ sent'[Len(sent')] = MenuMsg]_vars

\* the same for the users of the allow-list
SaveOfExistingRowByAllowed ==
    [][\A u \in Users \cap AllowList, outcomes \in Outcomes :
          (/\ HasCard(u)
           /\ RowOf(u) # 0
           /\ SavesWritten(u, outcomes))
          =>
          LET record == user_data[u]["current_card"]
              snapshot == write_on_google_sheets(record, TRUE).ret
          IN  /\ calls'.write = 1
              /\ \A f \in CardFields :
                     record[f] # None => sheet'[RowOf(u)][f] = record[f]
              /\ Len(notified') >= 1
              /\ \A i \in DOMAIN notified' :
                     /\ notified'[i].chat_id = id_notification_list[i]
                     /\ Shown(notified'[i].message.changes) = ChangesOf(record, snapshot)
              /\ user_data'[u] = EmptyDict
              /\ sent'[Len(sent')] = MenuMsg]_vars

\* a changed record was saved over its row and the change was delivered
SavedChangedRecord ==
    /\ last.h = "handle_save"
    /\ calls.write = 1
    /\ Len(notified) = Len(id_notification_list)
    /\ notified[1].message.changes # << >>
    /\ sheet[1]["hours_of_operation"] # << >>

\* C17: a Save whose write finds no row with the ID of the record, and so
\* inserts it as a new row, makes no delivery attempt.
C17_InsertSendsNothing ==
    [][\A u \in Users, outcomes \in Outcomes :
          (/\ HasCard(u)
           /\ RowOf(u) = 0
           /\ SavesWritten(u, outcomes))
          => Len(notified') = 0]_vars

\* a record that was not in the sheet was saved as a new row
SavedNewRecord ==
    /\ last.h = "handle_save"
    /\ calls.write = 1
    /\ Len(sheet) = 2

\* a Save of the user whose write fails
SavesUnwritten(u) ==
    \E outcomes \in Outcomes : HandleSave(u, T_Save, FALSE, FALSE, outcomes)

\* C18: a Save whose write fails leaves the session as it was, the record
\* with its edits and field_to_update included, and makes no delivery.
C18_FailedSaveKeepsSession ==
    [][\A u \in Users :
          (HasCard(u) /\ SavesUnwritten(u))
          => /\ user_data'[u] = user_data[u]
             /\ Len(notified') = 0]_vars

\* the part of C18 about the notification: a failed write delivers nothing
FailedSaveDeliversNothing ==
    [][\A u \in Users :
          (HasCard(u) /\ SavesUnwritten(u)) => Len(notified') = 0]_vars

\* a Save with a record in the session whose write failed
FailedSave ==
    /\ last.h = "handle_save"
    /\ calls.write = 1
    /\ Len(notified) = 0
    /\ sheet = << FirstRow >>

SavedText == "You saved the place card"

\* a message that tells the user of a failure
IsErrorMsg(m) ==
    /\ m # MenuMsg
    /\ m.text \notin {SavedText, "place card", NotAuthorizedMsg.text}

\* C19: a Save whose write fails sends the user an error message and does
\* not send "You saved the place card".
C19_FailedSaveReportsError ==
    [][\A u \in Users :
          (HasCard(u) /\ SavesUnwritten(u))
          => /\ \E i \in DOMAIN sent' : IsErrorMsg(sent'[i])
             /\ \A i \in DOMAIN sent' : sent'[i].text # SavedText]_vars

\* the user was told of a save that was not written
FailedSaveToldSaved ==
    /\ FailedSave
    /\ sent[1].text = SavedText

\* C20: the change list of a notification has one line for each field that
\* the record and the prior snapshot both have with different values, and
\* no other line; the lines are numbered from 1 in the order of the fields
\* of the record and read "{n}. {field}: {old} -> {new}". A snapshot that
\* differs in hours_of_operation only gives the one line of that field.
C20_ChangeList ==
    [][\A u \in Users, outcomes \in Outcomes :
          (HasCard(u) /\ SavesWritten(u, outcomes))
          =>
          LET record == user_data[u]["current_card"]
              snapshot == write_on_google_sheets(record, TRUE).ret
              hours == "hours_of_operation"
          IN  /\ Len(notified') >= 1
              /\ \A i \in DOMAIN notified' :
                     /\ Shown(notified'[i].message.changes)
                            = ListText(ChangeList(record, snapshot), 1)
                     /\ ({f \in CardFields \cap DOMAIN snapshot : record[f] # snapshot[f]}
                            = {hours})
                        => Shown(notified'[i].message.changes)
                              = ChangeLine(1, hours, snapshot[hours], record[hours])]_vars

\* a notification went out with a change list of the lines of type and
\* hours_of_operation
TwoChangesNotified ==
    /\ last.h = "handle_save"
    /\ Len(notified) = Len(id_notification_list)
    /\ Shown(notified[1].message.changes)
          = ChangeLine(1, "type", << >>, T_Services) \o << 10 >>
            \o ChangeLine(2, "hours_of_operation", T_Ab, T_Hours)

\* C21: in a Save whose write succeeds, whatever the outcome of each post,
\* send_notification does not raise and every recipient of
\* id_notification_list gets one delivery attempt, in the order of the list.
C21_FanOutIsolatesFailures ==
    [][\A u \in Users, outcomes \in Outcomes :
          (HasCard(u) /\ SavesWritten(u, outcomes))
          =>
          LET record == user_data[u]["current_card"]
              snapshot == write_on_google_sheets(record, TRUE).ret
          IN  /\ ~send_notification(record, snapshot, outcomes).raised
              /\ Len(notified') = Len(id_notification_list)
              /\ \A i \in DOMAIN notified' :
                     notified'[i].chat_id = id_notification_list[i]]_vars

\* the part of C21 about an answer other than 200: the later recipients are
\* still tried
FailedStatusDoesNotStop ==
    [][\A u \in Users, outcomes \in Outcomes :
          (/\ HasCard(u)
           /\ \A i \in DOMAIN outcomes : outcomes[i] # "error"
           /\ SavesWritten(u, outcomes))
          => /\ Len(notified') = Len(id_notification_list)
             /\ \A i \in DOMAIN notified' :
                    /\ notified'[i].chat_id = id_notification_list[i]
                    /\ notified'[i].outcome = outcomes[i]]_vars

\* the post to the first recipient raised and the second was not tried
DeliveryCutShort ==
    /\ last.h = "handle_save"
    /\ Len(notified) = 1
    /\ notified[1].outcome = "error"

\* the conversation of the user collects photos for a record
PhotoCollecting(u) ==
    /\ conversations[u] = 1
    /\ HasCard(u)
    /\ HasKey(user_data[u], "photos_received")

\* no call of Drive fails
UploadSucceeds(io) ==
    /\ io.search \in {"found", "absent"}
    /\ io.create = "ok"
    /\ io.public = "ok"
    /\ io.failing = 0

\* the selection of a field is the same after the step
SameSelection(u) ==
    /\ HasKey(user_data'[u], "field_to_update") = HasKey(user_data[u], "field_to_update")
    /\ HasKey(user_data[u], "field_to_update")
          => user_data'[u]["field_to_update"] = user_data[u]["field_to_update"]

\* the conversation is over and the card and the edit bar are the last
\* messages
BackToCard(u) ==
    /\ conversations'[u] = 0
    /\ HasKey(user_data'[u], "current_card")
    /\ Len(sent') >= 2
    /\ sent'[Len(sent') - 1] = CardMsg(user_data'[u]["current_card"])
    /\ sent'[Len(sent')] = EditBarMsg

\* C22: /finish while photos are collected, with an upload in which every
\* call of Drive succeeds, sets photos of the record to the link of the
\* folder found or created, empties the pending list, leaves every other
\* field of the record as it was, and the session is back in CardDisplayed:
\* the conversation is over, the card and the edit bar are shown and no
\* field is selected.
C22_FinishReturnsToCardDisplayed ==
    [][\A u \in Users, io \in DriveResults :
          (/\ last'.h = "finish_photo"
           /\ PhotoCollecting(u)
           /\ UploadSucceeds(io)
           /\ FinishPhoto(u, io))
          =>
          LET before == user_data[u]["current_card"]
              after == user_data'[u]["current_card"]
              folder == IF io.search = "found" THEN T_FolderFound ELSE T_FolderCreated
          IN  /\ BackToCard(u)
              /\ ~HasKey(user_data'[u], "field_to_update")
              /\ after["photos"] = folder_link(folder)
              /\ user_data'[u]["photos_received"] = << >>
              /\ \A f \in CardFields \ {"photos"} : after[f] = before[f]
              /\ calls'.upload = Len(user_data[u]["photos_received"])
              /\ sent'[2] = UploadedMsg]_vars

\* the part of C22 that holds: the same with the selection of a field left
\* as it was, instead of no field selected
FinishUploadsKeepingSelection ==
    [][\A u \in Users, io \in DriveResults :
          (/\ last'.h = "finish_photo"
           /\ PhotoCollecting(u)
           /\ UploadSucceeds(io)
           /\ FinishPhoto(u, io))
          =>
          LET before == user_data[u]["current_card"]
              after == user_data'[u]["current_card"]
              folder == IF io.search = "found" THEN T_FolderFound ELSE T_FolderCreated
          IN  /\ BackToCard(u)
              /\ SameSelection(u)
              /\ after["photos"] = folder_link(folder)
              /\ user_data'[u]["photos_received"] = << >>
              /\ \A f \in CardFields \ {"photos"} : after[f] = before[f]
              /\ calls'.upload = Len(user_data[u]["photos_received"])
              /\ sent'[2] = UploadedMsg]_vars

\* photos were uploaded and the record got the link, and the field name is
\* still selected
FieldSelectedAfterUpload ==
    /\ last.h = "finish_photo"
    /\ Len(sent) >= 2
    /\ sent[2] = UploadedMsg
    /\ calls.upload >= 1
    /\ FieldSelected(last.u, "name")
    /\ user_data[last.u]["current_card"]["photos"] = folder_link(T_FolderCreated)
    /\ user_data[last.u]["photos_received"] = << >>

\* a call of Drive made for n pending photos fails
StepFails(io, n) ==
    \/ io.search \in {"error", "raise"}
    \/ io.create # "ok"
    \/ io.public # "ok"
    \/ io.failing \in 1..n

\* the failure leaves upload_photo as an exception
UploadRaises(io, n) ==
    \/ io.search = "raise"
    \/ io.create = "raise"
    \/ io.public = "raise"
    \/ io.failing \in 1..n /\ io.failure \in {"download_error", "upload_raise"}

\* C23: /finish while photos are collected, with an upload in which a call
\* of Drive fails (the search or the creation of the folder, making it
\* public, the download or the upload of a photo), leaves photos of the
\* record as it was, sends the user the error message, ends the
\* conversation and shows the card with the edit bar.
C23_FailedUploadKeepsPhotos ==
    [][\A u \in Users, io \in DriveResults :
          (/\ last'.h = "finish_photo"
           /\ PhotoCollecting(u)
           /\ StepFails(io, Len(user_data[u]["photos_received"]))
           /\ FinishPhoto(u, io))
          => /\ BackToCard(u)
             /\ user_data'[u]["current_card"]["photos"]
                   = user_data[u]["current_card"]["photos"]
             /\ \E i \in DOMAIN sent' : sent'[i] = UploadErrorMsg]_vars

\* the part of C23 that holds: a failure that leaves upload_photo as an
\* exception
RaisingUploadKeepsPhotos ==
    [][\A u \in Users, io \in DriveResults :
          (/\ last'.h = "finish_photo"
           /\ PhotoCollecting(u)
           /\ UploadRaises(io, Len(user_data[u]["photos_received"]))
           /\ FinishPhoto(u, io))
          => /\ BackToCard(u)
             /\ user_data'[u] = user_data[u]
             /\ \E i \in DOMAIN sent' : sent'[i] = UploadErrorMsg]_vars

\* the answer of Drive in which the permission call on a folder that was
\* found ends with an HttpError
PermissionRefused ==
    [search |-> "found", create |-> "ok", public |-> "error", failing |-> 0,
     failure |-> "download_error"]

\* photos are pending for a record, and /finish with a permission call that
\* fails answers "Photos has been uploaded" and puts the link in the record
SwallowedPermissionError ==
    \E u \in Users :
        /\ PhotoCollecting(u)
        /\ user_data[u]["photos_received"] # << >>
        /\ ENABLED (/\ FinishPhoto(u, PermissionRefused)
                    /\ sent'[2] = UploadedMsg
                    /\ user_data'[u]["current_card"]["photos"]
                          = folder_link(T_FolderFound))

\* the pending list of a user_data, empty when there is none
PendingOf(d) == IF HasKey(d, "photos_received") THEN d["photos_received"] ELSE << >>

\* C24: a photo received while the photo conversation runs puts its file
\* path at the end of the pending list, after the entries the list had in
\* their order, changes no other key of the session (the record and
\* field_to_update included) and leaves the conversation running.
C24_PhotoAppended ==
    [][\A u \in Users, file_path \in PhotoPaths :
          (/\ last'.h = "photo_handler"
           /\ conversations[u] = 1
           /\ PhotoHandler(u, file_path))
          => /\ user_data'[u]["photos_received"]
                   = PendingOf(user_data[u]) \o << file_path >>
             /\ DOMAIN user_data'[u] = DOMAIN user_data[u] \cup {"photos_received"}
             /\ \A k \in DOMAIN user_data[u] \ {"photos_received"} :
                    user_data'[u][k] = user_data[u][k]
             /\ conversations'[u] = 1]_vars

\* a second photo was put after a first one, with a record and a selected
\* field in the session
SecondPhotoReceived ==
    /\ last.h = "photo_handler"
    /\ HasKey(user_data[last.u], "field_to_update")
    /\ HasCard(last.u)
    /\ PendingOf(user_data[last.u]) = << "photos/file_1.jpg", "photos/file_2.jpg" >>

\* C25: no handler ends with an exception that nothing caught, whatever the
\* state of the session its update arrives in.
C25_NoUnhandledFailure == raised = FALSE

\* a Save without a record in the session ended with an exception, after
\* the user was told the card was saved
SaveWithoutRecordRaised ==
    /\ last.h = "handle_save"
    /\ raised
    /\ user_data[last.u] = EmptyDict
    /\ sent = << Msg(SavedText, "none") >>

\* the other updates of C25 that end with an exception: the phrase and a
\* type button without a record, a lookup whose read fails
OtherHandlersRaised ==
    /\ raised
    /\ last.h \in {"handle_new_value", "button", "handle_company_name"}

\* /finish without a record ended with an exception
FinishWithoutRecordRaised ==
    /\ last.h = "finish_photo"
    /\ raised
    /\ conversations[last.u] = 1

\* C26: an update of one user leaves the session and the photo conversation
\* of every other user as they were, and every card it shows is the record
\* of the session of that user, before or after the update; so a record a
\* lookup loads is put in the session of the user who sent the name only.
C26_SessionsIsolated ==
    [][\A u \in Users :
          last'.u = u
          => /\ \A v \in Users \ {u} :
                    /\ user_data'[v] = user_data[v]
                    /\ conversations'[v] = conversations[v]
             /\ \A i \in DOMAIN sent' :
                    "card" \in DOMAIN sent'[i]
                    => \/ HasCard(u) /\ sent'[i].card = user_data[u]["current_card"]
                       \/ /\ HasKey(user_data'[u], "current_card")
                          /\ sent'[i].card = user_data'[u]["current_card"]]_vars

\* one user looked a record up while the other held another record with a
\* selected field and pending photos
LookupBesideSession ==
    /\ last = Update("handle_company_name", 5)
    /\ HasCard(5)
    /\ HasCard(9)
    /\ user_data[5]["current_card"] # user_data[9]["current_card"]
    /\ HasKey(user_data[9], "field_to_update")
    /\ PendingOf(user_data[9]) # << >>

\* C27: the record of a session has an ID that is not blank, and while the
\* session holds the record no update changes the ID: no lookup, field
\* selection, value, type button, photo or upload.
C27_IdentifierKept ==
    [][\A u \in Users :
          HasKey(user_data'[u], "current_card")
          => /\ ~Blank(user_data'[u]["current_card"]["ID"])
             /\ HasCard(u)
                  => user_data'[u]["current_card"]["ID"]
                        = user_data[u]["current_card"]["ID"]]_vars

\* the record of the sheet was loaded, its photos were uploaded, and it
\* still has the ID of its row
LoadedRecordUploaded ==
    /\ last.h = "finish_photo"
    /\ HasCard(last.u)
    /\ user_data[last.u]["current_card"]["ID"] = FirstRow["ID"]
    /\ user_data[last.u]["current_card"]["photos"] = folder_link(T_FolderFound)

\* the posts of the last save to the chat id
PostsTo(chat_id) == {i \in DOMAIN notified : notified[i].chat_id = chat_id}

\* C28: nothing is tried again: a Save writes to the sheet at most once and
\* posts at most once to each chat id of id_notification_list, and a finish
\* uploads at most once per photo that was pending, whatever the outcomes.
C28_NoRetry ==
    [][(last'.h = "handle_save"
          => /\ calls'.write <= 1
             /\ \A i, j \in DOMAIN notified' :
                    notified'[i].chat_id = notified'[j].chat_id => i = j)
       /\ (last'.h = "finish_photo"
          => calls'.upload <= Len(PendingOf(user_data[last'.u])))]_vars

\* a save whose first post got a status other than 200 posted once to each
\* chat id
FailedPostNotRepeated ==
    /\ last.h = "handle_save"
    /\ calls.write = 1
    /\ Len(notified) = Len(id_notification_list)
    /\ notified[1].outcome = "fail"
    /\ Cardinality(PostsTo(id_notification_list[1])) = 1

\* a finish whose second upload failed made two upload attempts
FailedUploadNotRepeated ==
    /\ last.h = "finish_photo"
    /\ \E i \in DOMAIN sent : sent[i] = UploadErrorMsg
    /\ calls.upload = 2

\* the text is "show information" in any mix of capital and small letters
IsShowPhrase(text) ==
    /\ Len(text) = Len(T_ShowInformation)
    /\ \A i \in DOMAIN text :
           \/ text[i] = T_ShowInformation[i]
           \/ text[i] >= 65 /\ text[i] <= 90 /\ text[i] + 32 = T_ShowInformation[i]

NoFieldSelectedMsg == Msg("Error: 'field_to_update'", "none")

\* C29: a text that reaches handle_new_value while the session holds a
\* record and no field_to_update: if it is "show information" in any case
\* the card is sent and nothing else; otherwise one error message is sent
\* and neither the card nor the edit bar.  Either way the session (record,
\* field_to_update, photos_received) is as it was.
C29_TextWithoutField ==
    [][\A u \in Users, text \in RecordTexts :
          (/\ last'.h = "handle_new_value"
           /\ HandleNewValue(u, text)
           /\ HasCard(u)
           /\ ~HasKey(user_data[u], "field_to_update"))
          => /\ user_data'[u] = user_data[u]
             /\ ~raised'
             /\ IF IsShowPhrase(text)
                THEN sent' = << CardMsg(user_data[u]["current_card"]) >>
                ELSE sent' = << NoFieldSelectedMsg >>]_vars

\* the card was shown for the phrase while photos were pending and no field
\* was selected
CardShownForPhrase ==
    /\ last.h = "handle_new_value"
    /\ HasCard(last.u)
    /\ ~HasKey(user_data[last.u], "field_to_update")
    /\ Len(PendingOf(user_data[last.u])) >= 1
    /\ sent = << CardMsg(user_data[last.u]["current_card"]) >>

\* a value without a selected field was answered with the error alone
ValueWithoutFieldRefused ==
    /\ last.h = "handle_new_value"
    /\ HasCard(last.u)
    /\ sent = << NoFieldSelectedMsg >>

\* the session names a field that is no key of its record
InvalidField(u) ==
    /\ HasCard(u)
    /\ HasKey(user_data[u], "field_to_update")
    /\ user_data[u]["field_to_update"] \notin DOMAIN user_data[u]["current_card"]

InvalidFieldRejectedButPhrase ==
    [][\A u \in Users, text \in PlainTexts :
          (/\ last'.h = "handle_new_value"
           /\ HandleNewValue(u, text)
           /\ InvalidField(u)
           /\ ~IsShowPhrase(text))
          => /\ user_data'[u] = user_data[u]
             /\ ~raised'
             /\ sent' = << Msg("Invalid field: " \o user_data[u]["field_to_update"],
                               "none") >>]_vars

RowsWithId(rows, organization) ==
    {i \in DOMAIN rows : rows[i]["ID"] = organization["ID"]}

\* what a read of the row gives for every column: the cell, "" included
Snapshot(row, columns) == [h \in columns |-> row[h]]

\* the returned dict holds the row: every column it has carries the cell of
\* the row, and a column it lacks is an empty cell at the end of the row
HoldsRow(returned, row) ==
    /\ DOMAIN returned \subseteq HeaderSet
    /\ \A h \in DOMAIN returned : returned[h] = row[h]
    /\ \A h \in HeaderSet \ DOMAIN returned : row[h] = << >>

\* C31: write_on_google_sheets finds the row by ID.  With a row of that ID
\* it changes that row only and returns the values the row held before;
\* with none it puts the record into the row after the last data row and
\* returns the values of the new row; when a call of the sheet fails it
\* returns False.  No row with another ID changes.
C31_WriteByIdentifier ==
    [][pc' = "done" =>
        LET organization == arg.organization
            hits == RowsWithId(sheet, organization)
        IN  /\ \A i \in DOMAIN sheet :
                   sheet[i]["ID"] # organization["ID"]
                   => (i \in DOMAIN sheet' /\ sheet'[i] = sheet[i])
            /\ IF ~arg.ok THEN ret' = PyFalse /\ sheet' = sheet
               ELSE IF hits # {}
               THEN /\ Len(sheet') = Len(sheet)
                    /\ \A i \in hits :
                           /\ HoldsRow(ret', sheet[i])
                           /\ sheet'[i]["ID"] = organization["ID"]
                           /\ \A f \in DOMAIN organization :
                                  organization[f] # None
                                  => sheet'[i][f] = organization[f]
               ELSE /\ Len(sheet') = Len(sheet) + 1
                    /\ \A f \in DOMAIN organization :
                           /\ ret'[f] = organization[f]
                           /\ organization[f] # None
                              => sheet'[Len(sheet')][f] = organization[f]
                    /\ \A h \in HeaderSet \ DOMAIN organization :
                           ret'[h] = << >> /\ sheet'[Len(sheet')][h] = << >>]_vars

\* the record of the second row was written over it, beside a first row
WroteSecondRow ==
    /\ pc = "done"
    /\ arg.ok
    /\ Len(sheet) = 2
    /\ arg.organization["ID"] = sheet[2]["ID"]
    /\ sheet[2]["hours_of_operation"] = T_Hours
    /\ ret # PyFalse
    /\ "hours_of_operation" \in DOMAIN ret
    /\ ret["hours_of_operation"] = T_Ab

\* a record with an ID no row had was put after the two rows
WroteNewRow ==
    /\ pc = "done"
    /\ arg.ok
    /\ Len(sheet) = 3
    /\ sheet[3]["ID"] = arg.organization["ID"]

\* C33: two sessions that hold records of different names hold different
\* IDs, so the record one of them saves is not written over the row of the
\* other (no session of this specification renames a record).
C33_MintedIdentifiersDistinct ==
    \A u, v \in Users :
        (/\ u # v
         /\ HasCard(u)
         /\ HasCard(v)
         /\ user_data[u]["current_card"]["name"] # user_data[v]["current_card"]["name"])
        => user_data[u]["current_card"]["ID"] # user_data[v]["current_card"]["ID"]

\* both users have saved, and the sheet has one new row, not two: the row of
\* "Cd" was written over by the record of "Ef"
SaveOverwroteOtherRecord ==
    /\ last.h = "handle_save"
    /\ \A u \in Users : user_data[u] = EmptyDict
    /\ Len(sheet) = 2
    /\ sheet[2]["name"] = T_Ef
    /\ sheet[2]["ID"] = IdPrefix \o str(311)

\* the cell a value of the record is stored as: None is an empty cell
CellOf(value) == IF value = None THEN << >> ELSE value

\* the row a Save of the record writes over
OverwrittenRows(card) == {i \in DOMAIN sheet : sheet[i]["ID"] = card["ID"]}

\* C32: when a Save writes over an existing row, the columns that are no
\* field of the record keep their values and the columns that are fields of
\* the record take the values of the record.
C32_OverwriteFrame ==
    [][\A u \in Users :
          (/\ last'.h = "handle_save"
           /\ last'.u = u
           /\ HasCard(u)
           /\ calls'.write = 1
           /\ sheet' # sheet \/ notified' # << >>)
          => LET card == user_data[u]["current_card"] IN
             \A i \in OverwrittenRows(card) :
                /\ \A h \in HeaderSet \ DOMAIN card : sheet'[i][h] = sheet[i][h]
                /\ \A f \in DOMAIN card : sheet'[i][f] = CellOf(card[f])]_vars

\* the half of C32 about the columns outside the record, and the fields of
\* the record that are not None
OverwriteKeepsOtherColumns ==
    [][\A u \in Users :
          (/\ last'.h = "handle_save"
           /\ last'.u = u
           /\ HasCard(u)
           /\ calls'.write = 1
           /\ sheet' # sheet \/ notified' # << >>)
          => LET card == user_data[u]["current_card"] IN
             \A i \in OverwrittenRows(card) :
                /\ \A h \in HeaderSet \ DOMAIN card : sheet'[i][h] = sheet[i][h]
                /\ \A f \in DOMAIN card :
                       card[f] # None => sheet'[i][f] = card[f]]_vars

\* a record whose type is None was saved over a row, and the row still has
\* the type it had
NoneLeftCell ==
    /\ last.h = "handle_save"
    /\ calls.write = 1
    /\ Len(sheet) = 1
    /\ sheet[1]["type"] = T_Services
    /\ sheet[1]["data_manager"] = << 77 >>
    /\ \E i \in DOMAIN sent :
           /\ sent[i].text = "place card"
           /\ sent[i].card["type"] = None
           /\ sent[i].card["ID"] = sheet[1]["ID"]

\* C34: photos are pending only in a session that holds a record and whose
\* photo conversation is running: after Exit, and in a session that never
\* loaded a record, a photo that arrives is not put on the list.
C34_PendingOnlyWhileCollecting ==
    \A u \in Users :
        PendingOf(user_data[u]) # << >>
        => (HasCard(u) /\ conversations[u] = 1)

\* a photo was put on the list of a session that holds no record
PhotoKeptWithoutRecord ==
    /\ last.h = "photo_handler"
    /\ last.u = 5
    /\ ~HasCard(5)
    /\ conversations[5] = 1
    /\ Len(PendingOf(user_data[5])) = 1

\* Exit leaves the photo conversation of the user running
ExitLeavesConversation ==
    /\ last.h = "handle_exit"
    /\ conversations[last.u] = 1
    /\ user_data[last.u] = EmptyDict

\* C35: a type button changes the record only in a session whose selected
\* field is type; pressed in any other session that holds a record it
\* leaves the type of the record and field_to_update as they were.
C35_TypeButtonOnlyWhenSelected ==
    [][\A u \in Users, data \in TypeButtons :
          (/\ last'.h = "button"
           /\ Button(u, data)
           /\ HasCard(u)
           /\ ~FieldSelected(u, "type"))
          => /\ HasKey(user_data'[u], "current_card")
             /\ user_data'[u]["current_card"]["type"]
                    = user_data[u]["current_card"]["type"]
             /\ HasKey(user_data'[u], "field_to_update")
                    = HasKey(user_data[u], "field_to_update")
             /\ HasKey(user_data[u], "field_to_update")
                    => user_data'[u]["field_to_update"]
                          = user_data[u]["field_to_update"]]_vars

\* a type button pressed with no field selected set the type of the record
\* and then raised
StaleTypeButtonSetType ==
    /\ last.h = "button"
    /\ raised
    /\ HasCard(last.u)
    /\ ~HasKey(user_data[last.u], "field_to_update")
    /\ user_data[last.u]["current_card"]["type"] = TypeText["Adventures"]

\* with the field type selected the button sets the type
TypeButtonOfSelectedType ==
    [][\A u \in Users, data \in TypeButtons :
          (/\ last'.h = "button"
           /\ Button(u, data)
           /\ FieldSelected(u, "type"))
          => /\ user_data'[u]["current_card"]["type"] = TypeText[data]
             /\ ~HasKey(user_data'[u], "field_to_update")]_vars

\* the form of a stored phone value: digits, after at most one "+" in front
PhoneForm(value) ==
    \A i \in DOMAIN value : str_isdigit(value[i]) \/ (i = 1 /\ value[i] = 43)

\* the rule of the field holds for the value
PassesRule(field, value) ==
    CASE field = "name" -> NameRule(value)
      [] field = "type" -> value \in ValidTypes
      [] field = "google_map" -> ShortLink(value)
      [] field \in {"phone_numbers", "Whatsapp"} -> PhoneForm(value)
      [] OTHER -> TRUE

\* the fields of the record of the user that the step has changed
FieldsSet(u) ==
    {f \in CardFields :
        user_data'[u]["current_card"][f] # user_data[u]["current_card"][f]}

\* C36: the name of every record a session holds matches the rule of names,
\* and every value an edit puts into a record passes the rule of its field:
\* a type is one of the three, a map link is a short link, a phone or
\* WhatsApp value is digits after at most one "+".
C36_EditsPassRules ==
    [][\A u \in Users :
          HasKey(user_data'[u], "current_card")
          => /\ NameRule(user_data'[u]["current_card"]["name"])
             /\ HasCard(u)
                => \A f \in FieldsSet(u) :
                      PassesRule(f, user_data'[u]["current_card"][f])]_vars

\* the same for every field but the map link
EditsPassRulesButLink ==
    [][\A u \in Users :
          HasKey(user_data'[u], "current_card")
          => /\ NameRule(user_data'[u]["current_card"]["name"])
             /\ HasCard(u)
                => \A f \in FieldsSet(u) \ {"google_map"} :
                      PassesRule(f, user_data'[u]["current_card"][f])]_vars

\* a link that ends with a newline was stored as the map link
LinkWithNewlineStored ==
    /\ last.h = "handle_new_value"
    /\ HasCard(last.u)
    /\ user_data[last.u]["current_card"]["google_map"] = T_LinkNewline

\* the handlers of text messages
TextHandlers == {"handle_exit", "handle_save", "handle_company_name",
                 "handle_new_value"}

\* C37: a text goes to one handler, in the order Exit, Save, reply, value;
\* so while a field is selected a text that is neither "Exit" nor "Save"
\* goes to handle_new_value as the value of the field, and none goes to the
\* lookup of a name.
C37_TextOfSelectedFieldIsValue ==
    [][\A u \in Users :
          (/\ last'.u = u
           /\ last'.h \in TextHandlers \ {"handle_exit", "handle_save"}
           /\ HasKey(user_data[u], "field_to_update"))
          => last'.h = "handle_new_value"]_vars

\* a reply sent while the field name was selected went to the lookup: the
\* session still holds its record and the field is still selected
ReplyLookedUpWhileFieldSelected ==
    /\ last.h = "handle_company_name"
    /\ FieldSelected(last.u, "name")
    /\ user_data[last.u]["current_card"]["name"] = T_Ab
    /\ \E i \in DOMAIN sent :
           sent[i] = Msg("Company not found. A new one was created.", "none")

\* seq is the first entries of whole, in their order
IsPrefix(seq, whole) ==
    Len(seq) <= Len(whole) /\ seq = SubSeq(whole, 1, Len(seq))

\* C38: upload_photo creates a folder only when the search found none and
\* uses the folder found otherwise; it tries the links one by one in their
\* order, once each, all of them when no exception leaves it; the link it
\* returns holds the ID of the folder found or created, the one the photos
\* went to.
C38_SearchOrCreate ==
    pc = "done"
    => /\ ret.creates = 1 => arg.io.search # "found"
       /\ arg.io.search = "found" => (ret.creates = 0 /\ ret.folder = T_FolderFound)
       /\ IsPrefix(ret.attempted, arg.links)
       /\ ~ret.raised
          => /\ ret.attempted = arg.links
             /\ ret.folder \in {T_FolderFound, T_FolderCreated}
             /\ ret.link = folder_link(ret.folder)

\* two photos went to the folder that was created
UploadedToCreatedFolder ==
    /\ pc = "done"
    /\ ~ret.raised
    /\ arg.io.search = "absent"
    /\ ret.creates = 1
    /\ ret.attempted = arg.links
    /\ Len(arg.links) = 2
    /\ ret.link = folder_link(T_FolderCreated)

====
